---- MODULE Spec2Model ----
(***************************************************************************)
(* Tax lot accounting of the DeFi portfolio dashboard                      *)
(* (src/src/services/taxService.ts): the TaxCalculator class, the          *)
(* conversion of wallet transfers into tax transactions and the yearly     *)
(* report; then the tax settings form (SpecSettings), the analytics hook   *)
(* usePortfolioAnalytics (SpecAnalytics, FairSpecAnalytics, and            *)
(* SpecPrerequisites with a reloading portfolio), the price history cache  *)
(* of tokenService (SpecCache), the risk metrics of riskService            *)
(* (SpecRisk), the RSI of advancedAnalyticsService (SpecIndicators) and    *)
(* the useTransactionHistory hook (SpecHistory).                           *)
(*                                                                         *)
(* JavaScript numbers are modelled as exact rationals n/d plus NaN (0/0),  *)
(* the only non-finite value these computations can produce; amounts are   *)
(* bigint and stay integers.  Rounding of IEEE doubles is not modelled.    *)
(***************************************************************************)
EXTENDS Integers, Sequences, FiniteSets, TLC

(***************************************************************************)
(* Bounds of the model.                                                    *)
(***************************************************************************)
MaxTx == 3
MaxReportTx == 3
MaxLotTx == 4

(***************************************************************************)
(* JavaScript number arithmetic.                                           *)
(***************************************************************************)
Abs(x) == IF x < 0 THEN -x ELSE x

RECURSIVE Gcd(_, _)
Gcd(a, b) == IF b = 0 THEN a ELSE Gcd(b, a % b)

NaN == [n |-> 0, d |-> 0]

IsNaN(x) == x.d = 0

\* the number n/d, d # 0, in lowest terms with a positive denominator
Rat(n, d) ==
    LET g == Gcd(Abs(n), Abs(d))
        s == IF d < 0 THEN -1 ELSE 1
    IN  [n |-> s * (n \div g), d |-> s * (d \div g)]

Num(i) == [n |-> i, d |-> 1]

Zero == Num(0)

\* a + b
Plus(a, b) ==
    IF IsNaN(a) \/ IsNaN(b) THEN NaN
    ELSE LET g == Gcd(a.d, b.d)
         IN  Rat(a.n * (b.d \div g) + b.n * (a.d \div g),
                 (a.d \div g) * b.d)

\* a - b
Minus(a, b) ==
    IF IsNaN(a) \/ IsNaN(b) THEN NaN
    ELSE LET g == Gcd(a.d, b.d)
         IN  Rat(a.n * (b.d \div g) - b.n * (a.d \div g),
                 (a.d \div g) * b.d)

\* a * b
Times(a, b) ==
    IF IsNaN(a) \/ IsNaN(b) THEN NaN
    ELSE LET g == Gcd(Abs(a.n), Abs(b.d))
             h == Gcd(Abs(b.n), Abs(a.d))
         IN  Rat((a.n \div g) * (b.n \div h), (a.d \div h) * (b.d \div g))

\* a / b for b >= 0 and a >= 0: 0/0 is NaN.  (x/0 with x > 0, Infinity, is
\* never evaluated: every division here has numerator <= denominator.)
Over(a, b) ==
    IF IsNaN(a) \/ IsNaN(b) \/ b.n = 0 THEN NaN
    ELSE LET g == Gcd(Abs(a.n), Abs(b.n))
             h == Gcd(Abs(a.d), Abs(b.d))
         IN  Rat((a.n \div g) * (b.d \div h), (a.d \div h) * (b.n \div g))

\* a < b, false when either is NaN
Less(a, b) == ~IsNaN(a) /\ ~IsNaN(b) /\ a.n * b.d < b.n * a.d

\* Math.min(a, b) on integers
Min(a, b) == IF a <= b THEN a ELSE b

RECURSIVE Pow10(_)
Pow10(k) == IF k = 0 THEN 1 ELSE 10 * Pow10(k - 1)

\* Number(formatUnits(value, decimals))
formatUnits(value, decimals) == Rat(value, Pow10(decimals))

(***************************************************************************)
(* Calendar: new Date(timestamp * 1000).getFullYear(), in UTC.             *)
(***************************************************************************)
SecondsPerDay == 24 * 60 * 60

\* the civil year of a day counted from 1970-01-01 (Gregorian calendar)
YearOfDay(days) ==
    LET z   == days + 719468
        era == z \div 146097
        doe == z - era * 146097
        yoe == (doe - doe \div 1460 + doe \div 36524 - doe \div 146096) \div 365
        doy == doe - (365 * yoe + yoe \div 4 - yoe \div 100)
        mp  == (5 * doy + 2) \div 153
    IN  yoe + era * 400 + (IF mp < 10 THEN 0 ELSE 1)

getFullYear(timestamp) == YearOfDay(timestamp \div SecondsPerDay)

(***************************************************************************)
(* The wallet transfers fed to the engine.  A transfer carries what        *)
(* convertToTaxTransactions reads of a Transaction: its direction, token,  *)
(* amount in base units, timestamp, the price the historical price lookup  *)
(* gave for it and its gas fee in native units,                            *)
(* Number(formatUnits(gasUsed * gasPrice, 18)), 0 when gasUsed is absent.  *)
(***************************************************************************)
Mar2023 == 19417 * SecondsPerDay
Dec2023 == 19716 * SecondsPerDay + 6 * 60 * 60
Feb2024 == 19754 * SecondsPerDay
\* Date.now() / 1000 when the transfers are converted
Now == 20077 * SecondsPerDay + 12 * 60 * 60

\* the price history the lookup answers from: $1, then $3, then $5
PriceAt(t) == IF t = Mar2023 THEN 1 ELSE IF t = Dec2023 THEN 3 ELSE 5

\* the gas fee a transfer of that block paid
GasAt(t) == IF t = Feb2024 THEN 1 ELSE 0

\* checksummed and lower-case spellings of one token contract, and another
SymbolOf(a) == IF a = "0xcd" THEN "DAI" ELSE "UNI"

DecimalsOf(a) == IF a = "0xcd" THEN 0 ELSE 1

Transfers(addresses, amounts, times) ==
    { [ timestamp     |-> t,
        direction     |-> dir,
        tokenAddress  |-> a,
        tokenSymbol   |-> SymbolOf(a),
        tokenDecimals |-> DecimalsOf(a),
        tokenAmount   |-> q,
        priceAtTime   |-> PriceAt(t),
        gasFee        |-> GasAt(t) ] :
      dir \in {"in", "out"}, a \in addresses, q \in amounts, t \in times }

\* String.prototype.toLowerCase on the token addresses of the model
toLowerCase(a) == IF a = "0xAb" THEN "0xab" ELSE a

InflowTypes == {"buy", "transfer_in", "airdrop"}

OutflowTypes == {"sell", "transfer_out"}

Methods == {"FIFO", "LIFO"}

getDefaultTaxSettings ==
    [ method            |-> "FIFO",
      includeGasFees    |-> TRUE,
      longTermThreshold |-> 365,
      taxYear           |-> getFullYear(Now) ]

(***************************************************************************)
(* convertToTaxTransactions: the tax transaction built for one transfer.   *)
(***************************************************************************)
calculateHoldingPeriod(timestamp) == (Now - timestamp) \div SecondsPerDay

convertToTaxTransactions(tx, s) ==
    LET taxType    == IF tx.direction = "in" THEN "transfer_in" ELSE "transfer_out"
        tokenValue == formatUnits(tx.tokenAmount, tx.tokenDecimals)
        usdValue   == Times(tokenValue, Num(tx.priceAtTime))
        gasCost    == Times(Num(tx.gasFee), Num(tx.priceAtTime))
        fee        == IF s.includeGasFees THEN gasCost ELSE Zero
        costBasis  == IF taxType \in {"transfer_in", "airdrop"}
                      THEN Plus(usdValue, fee) ELSE Zero
        proceeds   == IF taxType \in {"transfer_in", "airdrop"}
                      THEN Zero ELSE Minus(usdValue, fee)
        holdingPeriod == calculateHoldingPeriod(tx.timestamp)
    IN  [ timestamp     |-> tx.timestamp,
          type          |-> taxType,
          tokenAddress  |-> tx.tokenAddress,
          tokenSymbol   |-> tx.tokenSymbol,
          amount        |-> tx.tokenAmount,
          usdValue      |-> usdValue,
          costBasis     |-> costBasis,
          proceeds      |-> proceeds,
          gainLoss      |-> Minus(proceeds, costBasis),
          holdingPeriod |-> holdingPeriod,
          isLongTerm    |-> holdingPeriod >= s.longTermThreshold,
          fifoCostBasis |-> IF s.method = "FIFO" THEN costBasis ELSE Zero,
          lifoCostBasis |-> IF s.method = "LIFO" THEN costBasis ELSE Zero,
          method        |-> s.method ]

(***************************************************************************)
(* TaxCalculator.updateTokenBalances.  tokenBalances is the Map from the   *)
(* lower-cased token address to { amount, costBasis }.  The result tells   *)
(* whether the call threw, the map after it and the local soldCostBasis.   *)
(***************************************************************************)
NoBalance == [amount |-> 0, costBasis |-> Zero]

BalanceOf(balances, tokenKey) ==
    IF tokenKey \in DOMAIN balances THEN balances[tokenKey] ELSE NoBalance

MapSet(balances, tokenKey, value) ==
    [k \in DOMAIN balances \cup {tokenKey} |->
        IF k = tokenKey THEN value ELSE balances[k]]

\* mutant: the inflow replaces the balance instead of adding to it
addToBalanceOverwrites(currentBalance, transaction) ==
    [ amount    |-> transaction.amount,
      costBasis |-> Plus(currentBalance.costBasis, transaction.costBasis) ]

\* lines 32-33: the balance after an inflow
addToBalance(currentBalance, transaction) ==
    [ amount    |-> currentBalance.amount + transaction.amount,
      costBasis |-> Plus(currentBalance.costBasis, transaction.costBasis) ]

\* mutant: the balance check is dropped
insufficientBalanceUnchecked(currentBalance, transaction) == FALSE

\* lines 37-38: the outflow is larger than the balance
insufficientBalance(currentBalance, transaction) ==
    currentBalance.amount - transaction.amount < 0

\* mutant: the ratio is taken against the remaining amount
soldCostBasisOfRemaining(currentBalance, transaction) ==
    LET costBasisRatio ==
            Over(Num(transaction.amount),
                 Num(currentBalance.amount - transaction.amount))
    IN  Times(currentBalance.costBasis, costBasisRatio)

\* lines 43-44: the cost basis of the amount sold
soldCostBasisOf(currentBalance, transaction) ==
    LET costBasisRatio == Over(Num(transaction.amount), Num(currentBalance.amount))
    IN  Times(currentBalance.costBasis, costBasisRatio)

\* lines 37, 45-50: the balance after an outflow
removeFromBalance(currentBalance, transaction) ==
    [ amount    |-> currentBalance.amount - transaction.amount,
      costBasis |-> Minus(currentBalance.costBasis,
                          soldCostBasisOf(currentBalance, transaction)) ]

updateTokenBalances(balances, transaction) ==
    LET tokenKey       == toLowerCase(transaction.tokenAddress)
        currentBalance == BalanceOf(balances, tokenKey)
    IN  IF transaction.type \in InflowTypes
        THEN [ threw    |-> FALSE,
               sold     |-> Zero,
               balances |-> MapSet(balances, tokenKey,
                                   addToBalance(currentBalance, transaction)) ]
        ELSE IF transaction.type \in OutflowTypes
        THEN IF insufficientBalance(currentBalance, transaction)
             THEN [threw |-> TRUE, sold |-> Zero, balances |-> balances]
             ELSE [ threw    |-> FALSE,
                    sold     |-> soldCostBasisOf(currentBalance, transaction),
                    balances |-> MapSet(balances, tokenKey,
                                   removeFromBalance(currentBalance, transaction)) ]
        ELSE [threw |-> FALSE, sold |-> Zero, balances |-> balances]

(***************************************************************************)
(* Array helpers: filter, the stable Array.prototype.sort and reduce.      *)
(***************************************************************************)
Indices(seq) == [i \in 1..Len(seq) |-> i]

\* nums.reduce((sum, x) => sum + x, 0), over the summed field of each element
SumOf(nums) ==
    LET acc[i \in 0..Len(nums)] ==
            IF i = 0 THEN Zero ELSE Plus(acc[i - 1], nums[i])
    IN  acc[Len(nums)]

\* position i placed in the sorted positions s after every position whose
\* key does not compare greater than its own
InsertSorted(i, s, keys) ==
    LET later == {j \in 1..Len(s) : Less(keys[i], keys[s[j]])}
        p     == IF later = {} THEN Len(s) + 1
                 ELSE CHOOSE j \in later : \A k \in later : j <= k
    IN  SubSeq(s, 1, p - 1) \o <<i>> \o SubSeq(s, p, Len(s))

\* seq.sort((a, b) => key(a) - key(b)): stable, keys[i] the key of seq[i]
SortBy(seq, keys) ==
    LET sorted[i \in 0..Len(seq)] ==
            IF i = 0 THEN <<>> ELSE InsertSorted(i, sorted[i - 1], keys)
    IN  [i \in 1..Len(seq) |-> seq[sorted[Len(seq)][i]]]

(***************************************************************************)
(* TaxCalculator.calculateFIFOCostBasis and calculateLIFOCostBasis.  Lots  *)
(* are named by their index in this.transactions; the walk over the sorted *)
(* lots returns the cost basis and the amountToUse taken from each lot.    *)
(***************************************************************************)
relevantTransactions(txs, transaction) ==
    SelectSeq(Indices(txs), LAMBDA i :
        /\ toLowerCase(txs[i].tokenAddress) = toLowerCase(transaction.tokenAddress)
        /\ txs[i].type \in InflowTypes
        /\ txs[i].timestamp < transaction.timestamp)

RECURSIVE ConsumeLots(_, _, _)
ConsumeLots(txs, lots, remainingAmount) ==
    IF lots = <<>> \/ remainingAmount <= 0
    THEN [costBasis |-> Zero, used |-> <<>>]
    ELSE LET tx             == txs[Head(lots)]
             txAmount       == tx.amount
             amountToUse    == Min(remainingAmount, txAmount)
             costBasisRatio == Over(Num(amountToUse), Num(txAmount))
             rest == ConsumeLots(txs, Tail(lots), remainingAmount - amountToUse)
         IN  [ costBasis |-> Plus(Times(tx.costBasis, costBasisRatio),
                                  rest.costBasis),
               used      |-> <<[lot |-> Head(lots), amount |-> amountToUse]>>
                             \o rest.used ]

FIFOLots(txs, transaction) ==
    ConsumeLots(txs,
        LET lots == relevantTransactions(txs, transaction)
        IN  SortBy(lots, [i \in 1..Len(lots) |-> Num(txs[lots[i]].timestamp)]),
        transaction.amount)

LIFOLots(txs, transaction) ==
    ConsumeLots(txs,
        LET lots == relevantTransactions(txs, transaction)
        IN  SortBy(lots, [i \in 1..Len(lots) |-> Num(0 - txs[lots[i]].timestamp)]),
        transaction.amount)

calculateFIFOCostBasis(txs, transaction) ==
    IF transaction.type \notin OutflowTypes THEN transaction.costBasis
    ELSE FIFOLots(txs, transaction).costBasis

calculateLIFOCostBasis(txs, transaction) ==
    IF transaction.type \notin OutflowTypes THEN transaction.costBasis
    ELSE LIFOLots(txs, transaction).costBasis

(***************************************************************************)
(* TaxCalculator.calculateTokenPerformance and generateTaxReport.          *)
(***************************************************************************)
\* the keys of tokenMap, in insertion order
RECURSIVE TokenKeys(_)
TokenKeys(sells) ==
    IF sells = <<>> THEN <<>>
    ELSE LET before == TokenKeys(SubSeq(sells, 1, Len(sells) - 1))
             key    == sells[Len(sells)].tokenSymbol
         IN  IF \E i \in 1..Len(before) : before[i] = key
             THEN before ELSE Append(before, key)

calculateTokenPerformance(txs) ==
    LET sells   == SelectSeq(txs, LAMBDA t : t.type \in OutflowTypes)
        keys    == TokenKeys(sells)
        entries == [ i \in 1..Len(keys) |->
            LET mine == SelectSeq(sells, LAMBDA t : t.tokenSymbol = keys[i])
            IN  [ tokenSymbol   |-> keys[i],
                  totalGainLoss |-> SumOf([k \in 1..Len(mine) |-> mine[k].gainLoss]),
                  totalProceeds |-> SumOf([k \in 1..Len(mine) |-> mine[k].proceeds]) ] ]
    IN  SortBy(entries, [k \in 1..Len(entries) |->
                            Minus(Zero, entries[k].totalGainLoss)])

\* mutant: the filter on the year is dropped
yearTransactionsOfAnyYear(txs, year) == txs

\* lines 124-127
yearTransactionsOf(txs, year) ==
    SelectSeq(txs, LAMBDA t : getFullYear(t.timestamp) = year)

generateTaxReport(txs, year) ==
    LET yearTransactions == yearTransactionsOf(txs, year)
        sellTransactions == SelectSeq(yearTransactions, LAMBDA t : t.type \in OutflowTypes)
        buyTransactions  == SelectSeq(yearTransactions, LAMBDA t : t.type \in InflowTypes)
        totalProceeds    == SumOf([i \in 1..Len(sellTransactions) |->
                                      sellTransactions[i].proceeds])
        totalCostBasis   == SumOf([i \in 1..Len(sellTransactions) |->
                                      sellTransactions[i].costBasis])
        shortTermTransactions == SelectSeq(sellTransactions, LAMBDA t : ~t.isLongTerm)
        longTermTransactions  == SelectSeq(sellTransactions, LAMBDA t : t.isLongTerm)
        tokenPerformance == calculateTokenPerformance(yearTransactions)
    IN  [ year              |-> year,
          totalProceeds     |-> totalProceeds,
          totalCostBasis    |-> totalCostBasis,
          totalGainLoss     |-> Minus(totalProceeds, totalCostBasis),
          shortTermGainLoss |->
              SumOf([i \in 1..Len(shortTermTransactions) |->
                        shortTermTransactions[i].gainLoss]),
          longTermGainLoss  |->
              SumOf([i \in 1..Len(longTermTransactions) |->
                        longTermTransactions[i].gainLoss]),
          transactions      |-> yearTransactions,
          summary |->
            [ totalTransactions |-> Len(yearTransactions),
              buyTransactions   |-> Len(buyTransactions),
              sellTransactions  |-> Len(sellTransactions),
              averageHoldingPeriod |->
                  IF Len(yearTransactions) > 0
                  THEN Over(SumOf([i \in 1..Len(yearTransactions) |->
                                      Num(yearTransactions[i].holdingPeriod)]),
                            Num(Len(yearTransactions)))
                  ELSE Zero,
              bestPerformingToken |->
                  IF Len(tokenPerformance) > 0
                  THEN tokenPerformance[1].tokenSymbol ELSE "",
              worstPerformingToken |->
                  IF Len(tokenPerformance) > 0
                  THEN tokenPerformance[Len(tokenPerformance)].tokenSymbol ELSE "" ] ]

(***************************************************************************)
(* State of the usePortfolioAnalytics hook.  Times are in seconds.         *)
(* timePeriod is the hook's argument.  sinceLastFetch is                   *)
(* Date.now() - lastFetchTime of the lastFetchTime state, capped at the    *)
(* debounce window (lastFetchTime starts at 0, long ago).                  *)
(* refreshInterval is the timer made by startAutoRefresh together with     *)
(* the fetchAnalyticsData closure it calls: the timePeriod and the         *)
(* lastFetchTime of the render that made it (as sinceLastFetch, aged with  *)
(* the clock) and the time left until its next tick.  inFlight are the     *)
(* fetch cycles awaiting their price histories, oldest first; analytics    *)
(* is the analytics state; lastGap is the time between the last two        *)
(* cycles that started, capped at the window, and triggered the            *)
(* timePeriod of the last of them.  portfolioLoading is portfolio.loading  *)
(* of usePortfolio, the one prerequisite of a fetch that changes here (a   *)
(* wallet is connected and holds tokens); a closure holds the value of the *)
(* render that made it.  sinceLastCycle is the time since the last cycle   *)
(* started, capped at the window.                                          *)
(***************************************************************************)
VARIABLES timePeriod, sinceLastFetch, refreshInterval, inFlight, analytics,
          lastGap, triggered, portfolioLoading, sinceLastCycle

hookVars == <<timePeriod, sinceLastFetch, refreshInterval, inFlight, analytics,
              lastGap, triggered, portfolioLoading, sinceLastCycle>>

Debounce == 5

RefreshEvery == 60

NoInterval ==
    [ timePeriod |-> "", sinceLastFetch |-> 0, portfolioLoading |-> FALSE,
      untilTick |-> 0 ]

\* DEFAULT_ANALYTICS, with the period its data was computed for
DEFAULT_ANALYTICS == [timePeriod |-> "", loading |-> FALSE]

\* usePortfolioAnalytics(timePeriod = '30d') before its effects run
HookMounted(period) ==
    /\ timePeriod = period
    /\ sinceLastFetch = Debounce
    /\ refreshInterval = NoInterval
    /\ inFlight = <<>>
    /\ analytics = DEFAULT_ANALYTICS
    /\ lastGap = Debounce
    /\ triggered = ""
    /\ portfolioLoading = FALSE
    /\ sinceLastCycle = Debounce

(***************************************************************************)
(* State of the analytics cache of tokenService.  cacheClock is Date.now() *)
(* in hours.  localStorage maps a storage key to the                       *)
(* AnalyticsCacheData written under it.  lookups are the calls of          *)
(* getTokenHistoricalPrices awaiting their fetch, and returned is what the *)
(* last call to return did return.                                         *)
(***************************************************************************)
VARIABLES cacheClock, localStorage, lookups, returned

cacheVars == <<cacheClock, localStorage, lookups, returned>>

NoEntries == [k \in {} |-> [data |-> <<>>, timestamp |-> 0, expiry |-> 0]]

NoReturn == [ coinId |-> "", period |-> "", cached |-> FALSE, data |-> <<>>,
              at |-> 0, expiry |-> 0 ]

\* an empty localStorage and no call made
CacheEmpty ==
    /\ cacheClock = 0
    /\ localStorage = NoEntries
    /\ lookups = <<>>
    /\ returned = NoReturn

(***************************************************************************)
(* State of one call of calculateRiskMetrics: its argument, the price      *)
(* history getTokenHistoricalPrices returns for each coin id, and the      *)
(* metrics it resolved with, once it has.                                  *)
(***************************************************************************)
VARIABLES tokens, historicalData, riskMetrics

riskVars == <<tokens, historicalData, riskMetrics>>

\* no call of calculateRiskMetrics
RiskIdle ==
    /\ tokens = <<>>
    /\ historicalData = <<>>
    /\ riskMetrics = <<>>

(***************************************************************************)
(* State of the technical indicators (advancedAnalyticsService): the price *)
(* series calculateRSI is given and, once it has run, its result.          *)
(***************************************************************************)
VARIABLES priceSeries, rsi

indicatorVars == <<priceSeries, rsi>>

\* calculateRSI not called
IndicatorIdle ==
    /\ priceSeries = <<>>
    /\ rsi = <<>>

(***************************************************************************)
(* State of the useTransactionHistory hook.  address is the connected      *)
(* wallet ("" when none is connected) and currentNetwork the chain;        *)
(* history is the hook's state and pageCache its cache, from               *)
(* <<address, network, page>> to the page fetched.  pending holds the      *)
(* calls of getTransactionHistory not yet answered, each with the closure  *)
(* of the fetchTransactions that made it, and issued counts the calls.     *)
(* The transactions of one page are one value, which tells the request     *)
(* that fetched it.                                                        *)
(***************************************************************************)
VARIABLES address, currentNetwork, history, pageCache, pending, issued

historyVars == <<address, currentNetwork, history, pageCache, pending, issued>>

INITIAL_STATE ==
    [ transactions |-> <<>>, loading |-> FALSE, hasMore |-> TRUE, page |-> 0,
      error |-> FALSE ]

Networks == {"ethereum", "polygon"}

\* new Map()
EmptyCache == [k \in {} |-> <<>>]

\* the hook before a wallet is connected
HistoryIdle ==
    /\ address = ""
    /\ currentNetwork = "ethereum"
    /\ history = INITIAL_STATE
    /\ pageCache = EmptyCache
    /\ pending = {}
    /\ issued = 0

(***************************************************************************)
(* State.  transactions, tokenBalances and settings are the fields of one  *)
(* TaxCalculator; report is the result of generateTaxReport, once made.    *)
(* threw, rejected and sold record the outcome of the calls to             *)
(* addTransaction: whether the last one threw, the indices in              *)
(* transactions of those that threw, and the soldCostBasis of the last.    *)
(* costed records each call of the cost-basis method of the active         *)
(* accounting method.                                                      *)
(***************************************************************************)
VARIABLES transactions, tokenBalances, settings, threw, rejected, sold,
          report, costed

taxVars == <<transactions, tokenBalances, settings, threw, rejected, sold,
             report, costed>>

\* the state of the components other than the TaxCalculator
nonTaxVars == <<hookVars, cacheVars, riskVars, indicatorVars, historyVars>>

OthersIdle ==
    HookMounted("30d") /\ CacheEmpty /\ RiskIdle /\ IndicatorIdle /\ HistoryIdle

vars == <<taxVars, hookVars, cacheVars, riskVars, indicatorVars, historyVars>>

EmptyMap == [k \in {} |-> NoBalance]

\* new TaxCalculator(s)
Constructed(s) ==
    /\ settings = s
    /\ transactions = <<>>
    /\ tokenBalances = EmptyMap
    /\ threw = FALSE
    /\ rejected = {}
    /\ sold = Zero
    /\ report = <<>>
    /\ costed = <<>>

\* getDefaultTaxSettings() with the accounting method the user selected
Init ==
    /\ \E m \in Methods :
            Constructed([getDefaultTaxSettings EXCEPT !.method = m])
    /\ OthersIdle

\* handleSettingsChange: the method and the tax year as the user set them
InitAnyYear ==
    /\ \E m \in Methods, y \in {getFullYear(Now) - 1, getFullYear(Now)} :
            Constructed([getDefaultTaxSettings EXCEPT !.method = m,
                                                      !.taxYear = y])
    /\ OthersIdle

\* handleSettingsChange: the method and the gas switch as the user set them
InitAnySettings ==
    /\ \E m \in Methods, g \in BOOLEAN :
            Constructed([getDefaultTaxSettings EXCEPT !.method = m,
                                                      !.includeGasFees = g])
    /\ OthersIdle

\* calculator.addTransaction(transaction): push, then updateTokenBalances,
\* which may throw after the push
addTransaction(transaction) ==
    LET r == updateTokenBalances(tokenBalances, transaction)
    IN  /\ transactions' = Append(transactions, transaction)
        /\ tokenBalances' = r.balances
        /\ threw' = r.threw
        /\ sold' = r.sold
        /\ rejected' = IF r.threw THEN rejected \cup {Len(transactions) + 1}
                       ELSE rejected
        /\ UNCHANGED <<settings, report, costed, nonTaxVars>>

\* one transfer converted and added; the report is the calculator's last call
Feed(inputs, limit) ==
    /\ report = <<>>
    /\ Len(transactions) < limit
    /\ \E tx \in inputs : addTransaction(convertToTaxTransactions(tx, settings))

\* calculator.generateTaxReport(taxSettings.taxYear)
GenerateTaxReport ==
    /\ report = <<>>
    /\ report' = <<generateTaxReport(transactions, settings.taxYear)>>
    /\ UNCHANGED <<transactions, tokenBalances, settings, threw, rejected, sold,
                   costed, nonTaxVars>>

\* the cost basis of the next disposal not yet costed, by the method of the
\* settings (calculateFIFOCostBasis / calculateLIFOCostBasis)
NextDisposal ==
    {i \in 1..Len(transactions) :
        /\ transactions[i].type \in OutflowTypes
        /\ \A c \in 1..Len(costed) : costed[c].disposal < i}

CalculateCostBasis ==
    /\ NextDisposal # {}
    /\ LET i    == CHOOSE j \in NextDisposal : \A k \in NextDisposal : j <= k
           lots == IF settings.method = "FIFO"
                   THEN FIFOLots(transactions, transactions[i])
                   ELSE LIFOLots(transactions, transactions[i])
       IN  costed' = Append(costed, [ disposal  |-> i,
                                      costBasis |-> lots.costBasis,
                                      used      |-> lots.used ])
    /\ UNCHANGED <<transactions, tokenBalances, settings, threw, rejected, sold,
                   report, nonTaxVars>>

(***************************************************************************)
(* Specifications.                                                         *)
(* Spec: the calculator under the default settings and either accounting   *)
(* method, fed transfers of two tokens, some of amount 0, in any order.    *)
(* SpecReport: the report of the selected tax year over transfers of two   *)
(* tokens at three dates: long-term and short-term ones of 2023, and 2024. *)
(* SpecLots: one token bought and sold at three dates, with the lot        *)
(* matching of the accounting method.                                      *)
(***************************************************************************)
LedgerInputs == Transfers({"0xAb", "0xcd"}, {0, 100}, {Mar2023, Feb2024})

\* every purchase is of 200 base units and every sale of 100
ReportInputs ==
    { tx \in Transfers({"0xAb", "0xcd"}, {100, 200}, {Mar2023, Dec2023, Feb2024}) :
        (tx.direction = "in") <=> (tx.tokenAmount = 200) }

LotInputs == Transfers({"0xAb"}, {100}, {Mar2023, Dec2023, Feb2024})

FeedLedger == Feed(LedgerInputs, MaxTx)

FeedReport == Feed(ReportInputs, MaxReportTx)

FeedLots == Feed(LotInputs, MaxLotTx)

Next == FeedLedger \/ GenerateTaxReport

Spec == Init /\ [][Next]_vars

NextReport == FeedReport \/ GenerateTaxReport

SpecReport == InitAnyYear /\ [][NextReport]_vars

NextLots == FeedLots \/ CalculateCostBasis \/ GenerateTaxReport

SpecLots == InitAnySettings /\ [][NextLots]_vars

(***************************************************************************)
(* What the properties below speak of.                                     *)
(***************************************************************************)
IsInflow(t) == t.type \in InflowTypes

IsOutflow(t) == t.type \in OutflowTypes

\* the transactions addTransaction processed without throwing
Accepted == {i \in 1..Len(transactions) : i \notin rejected}

AssetOf(t) == toLowerCase(t.tokenAddress)

Assets == {AssetOf(transactions[i]) : i \in 1..Len(transactions)}
              \cup DOMAIN tokenBalances

\* inflow amounts minus outflow amounts of asset x over the accepted
\* transactions up to index n
RECURSIVE NetFlow(_, _)
NetFlow(x, n) ==
    IF n = 0 THEN 0
    ELSE LET t == transactions[n]
         IN  NetFlow(x, n - 1)
             + (IF n \in Accepted /\ AssetOf(t) = x
                THEN (IF IsInflow(t) THEN t.amount
                      ELSE IF IsOutflow(t) THEN -t.amount ELSE 0)
                ELSE 0)

OpenQuantity(x) == BalanceOf(tokenBalances, x).amount

\* the step added a transaction
Added == Len(transactions') = Len(transactions) + 1

\* C1: after addTransaction has processed any list of transactions, under
\* FIFO and under LIFO, the open quantity of every asset equals its inflow
\* amounts minus its outflow amounts, exactly.
LotAccountingInvariant ==
    \A x \in Assets : OpenQuantity(x) = NetFlow(x, Len(transactions))

\* C1 witness: under LIFO an asset with two accepted inflows and an accepted
\* outflow has the difference open.
LotAccountingWitness ==
    /\ settings.method = "LIFO"
    /\ Len(transactions) = 3
    /\ rejected = {}
    /\ \E x \in Assets :
        /\ \A i \in 1..3 : AssetOf(transactions[i]) = x
        /\ \E i \in 1..3 :
            /\ IsOutflow(transactions[i]) /\ transactions[i].amount = 100
            /\ \A j \in (1..3) \ {i} :
                IsInflow(transactions[j]) /\ transactions[j].amount = 100
        /\ OpenQuantity(x) = 100

\* C2: an outflow larger than the open quantity of its asset raises the
\* failure and leaves the balances as they were (no clamping to zero); no
\* open quantity is ever negative.
OutflowBeyondBalanceStep ==
    Added =>
        LET t == transactions'[Len(transactions')]
        IN  (IsOutflow(t) /\ t.amount > OpenQuantity(AssetOf(t)))
                => (threw' /\ tokenBalances' = tokenBalances)

OutflowBeyondBalanceRaises ==
    /\ [](\A x \in Assets : OpenQuantity(x) >= 0)
    /\ [][OutflowBeyondBalanceStep]_vars

\* C2 witness: an asset was bought and sold in full, and a further outflow
\* of it threw.
OutflowBeyondBalanceWitness ==
    /\ Len(transactions) = 3
    /\ threw
    /\ rejected = {3}
    /\ IsInflow(transactions[1]) /\ transactions[1].amount = 100
    /\ IsOutflow(transactions[2]) /\ transactions[2].amount = 100
    /\ IsOutflow(transactions[3]) /\ transactions[3].amount = 100
    /\ \A i \in 1..3 : AssetOf(transactions[i]) = "0xab"
    /\ OpenQuantity("0xab") = 0

\* C6: an outflow of quantity q from an open position of quantity Q > q and
\* cost basis C consumes the cost basis C*q/Q; the position stays open with
\* quantity Q - q and cost basis C - C*q/Q.
ProportionalSplitStep ==
    Added =>
        LET t == transactions'[Len(transactions')]
            x == AssetOf(t)
            Q == OpenQuantity(x)
            C == BalanceOf(tokenBalances, x).costBasis
            after == BalanceOf(tokenBalances', x)
        IN  (IsOutflow(t) /\ t.amount < Q) =>
                /\ ~threw'
                /\ Times(sold', Num(Q)) = Times(C, Num(t.amount))
                /\ after.amount = Q - t.amount
                /\ Times(after.costBasis, Num(Q)) = Times(C, Num(Q - t.amount))

LeapDaysBefore(y) == (y - 1) \div 4 - (y - 1) \div 100 + (y - 1) \div 400

\* 1 January of year y, 00:00, in seconds since 1970
StartOfYear(y) ==
    (365 * (y - 1970) + LeapDaysBefore(y) - LeapDaysBefore(1970)) * SecondsPerDay

InYear(t, y) == StartOfYear(y) <= t.timestamp /\ t.timestamp < StartOfYear(y + 1)

\* the recorded disposals of calendar year y, by index
Disposals(y) ==
    {i \in 1..Len(transactions) :
        IsOutflow(transactions[i]) /\ InYear(transactions[i], y)}

\* the sum of f over the transactions whose index is in S
Total(S, f(_)) ==
    LET acc[n \in 0..Len(transactions)] ==
            IF n = 0 THEN Zero
            ELSE IF n \in S THEN Plus(acc[n - 1], f(transactions[n]))
            ELSE acc[n - 1]
    IN  acc[Len(transactions)]

GainOf(t) == t.gainLoss

SymbolsOf(D) == {transactions[i].tokenSymbol : i \in D}

AggregateGain(D, symbol) ==
    Total({i \in D : transactions[i].tokenSymbol = symbol}, GainOf)

AtMost(a, b) == a.n * b.d <= b.n * a.d

\* C9: generateTaxReport(year) aggregates exactly the disposals of the
\* requested calendar year: its totals are their sums, the short-term and
\* long-term gains partition them by the long-term flag, and the best and
\* worst performing assets are those of the largest and smallest aggregate
\* realized gain ("" when the year has no disposal).
ReportAggregatesYear ==
    report # <<>> =>
        LET r == report[1]
            D == Disposals(r.year)
            best  == r.summary.bestPerformingToken
            worst == r.summary.worstPerformingToken
        IN  /\ r.year = settings.taxYear
            /\ r.totalProceeds = Total(D, LAMBDA t : t.proceeds)
            /\ r.totalCostBasis = Total(D, LAMBDA t : t.costBasis)
            /\ r.totalGainLoss = Total(D, GainOf)
            /\ r.shortTermGainLoss =
                   Total({i \in D : ~transactions[i].isLongTerm}, GainOf)
            /\ r.longTermGainLoss =
                   Total({i \in D : transactions[i].isLongTerm}, GainOf)
            /\ r.summary.sellTransactions = Cardinality(D)
            /\ D = {} => best = "" /\ worst = ""
            /\ D # {} =>
                /\ best \in SymbolsOf(D)
                /\ worst \in SymbolsOf(D)
                /\ \A x \in SymbolsOf(D) :
                    /\ AtMost(AggregateGain(D, x), AggregateGain(D, best))
                    /\ AtMost(AggregateGain(D, worst), AggregateGain(D, x))

\* C9 witness: the report of 2023 over a long-term and a short-term disposal
\* of 2023 and none of 2024, with a purchase of 2024 beside them.
ReportAggregatesYearWitness ==
    /\ report # <<>>
    /\ report[1].year = 2023
    /\ rejected = {}
    /\ Len(transactions) = 3
    /\ IsInflow(transactions[1]) /\ transactions[1].timestamp = Mar2023
    /\ IsOutflow(transactions[2]) /\ transactions[2].timestamp = Dec2023
    /\ IsOutflow(transactions[3]) /\ transactions[3].timestamp = Feb2024
    /\ Disposals(2023) = {2}
    /\ report[1].summary.sellTransactions = 1
    /\ report[1].totalProceeds = transactions[2].proceeds
    /\ ~(transactions[3].proceeds = Zero)

(***************************************************************************)
(* Lot matching of the accounting method.                                  *)
(***************************************************************************)
\* the lots the active method matches to the disposal at index i
MatchedLots(i) ==
    IF settings.method = "FIFO"
    THEN FIFOLots(transactions, transactions[i])
    ELSE LIFOLots(transactions, transactions[i])

\* the accepted disposals, by index
AcceptedDisposals == {i \in Accepted : IsOutflow(transactions[i])}

\* C7: the gain/loss recorded for every disposal of a report is its proceeds
\* minus the cost basis of the lots it consumed under the active method.
GainIsProceedsMinusLots ==
    (report # <<>> /\ rejected = {}) =>
        \A i \in Disposals(report[1].year) :
            transactions[i].gainLoss =
                Minus(transactions[i].proceeds, MatchedLots(i).costBasis)

\* the quantity-weighted average, over the lots used, of the time from the
\* acquisition of the lot to the disposal at index i, in seconds
RECURSIVE UsedQuantity(_)
UsedQuantity(used) ==
    IF used = <<>> THEN 0 ELSE Head(used).amount + UsedQuantity(Tail(used))

RECURSIVE WeightedAge(_, _, _)
WeightedAge(i, used, quantity) ==
    IF used = <<>> THEN Zero
    ELSE Plus(Times(Rat(Head(used).amount, quantity),
                    Num(transactions[i].timestamp
                        - transactions[Head(used).lot].timestamp)),
              WeightedAge(i, Tail(used), quantity))

\* disposal timestamp minus weighted average acquisition timestamp, in days
LotHoldingPeriod(i) ==
    LET used == MatchedLots(i).used
        age  == WeightedAge(i, used, UsedQuantity(used))
    IN  age.n \div (age.d * SecondsPerDay)

\* C8: the holding period of every disposal is its timestamp minus the
\* quantity-weighted average acquisition timestamp of the lots it consumed,
\* and it is long-term exactly when that is at least the threshold.
HoldingPeriodFromLots ==
    \A i \in AcceptedDisposals :
        UsedQuantity(MatchedLots(i).used) > 0 =>
            /\ transactions[i].holdingPeriod = LotHoldingPeriod(i)
            /\ transactions[i].isLongTerm
                   <=> (LotHoldingPeriod(i) >= settings.longTermThreshold)

\* C3: 10 units bought at $1, then 10 at $3, then 10 sold at $5: the report
\* shows a gain of 40 for the disposal under FIFO and of 20 under LIFO.
DivergenceScenario ==
    /\ report # <<>>
    /\ ~settings.includeGasFees
    /\ rejected = {}
    /\ Len(transactions) = 3
    /\ IsInflow(transactions[1]) /\ transactions[1].timestamp = Mar2023
    /\ transactions[1].usdValue = Num(10)
    /\ IsInflow(transactions[2]) /\ transactions[2].timestamp = Dec2023
    /\ transactions[2].usdValue = Num(30)
    /\ IsOutflow(transactions[3]) /\ transactions[3].timestamp = Feb2024
    /\ transactions[3].usdValue = Num(50)

FifoLifoDivergence ==
    DivergenceScenario =>
        LET gain == IF settings.method = "FIFO" THEN Num(40) ELSE Num(20)
        IN  /\ report[1].transactions = <<transactions[3]>>
            /\ report[1].transactions[1].gainLoss = gain
            /\ report[1].totalGainLoss = gain

\* the quantity the costed disposals drew from the lot at index l
RECURSIVE DrawnIn(_, _)
DrawnIn(used, l) ==
    IF used = <<>> THEN 0
    ELSE (IF Head(used).lot = l THEN Head(used).amount ELSE 0)
         + DrawnIn(Tail(used), l)

RECURSIVE DrawnFrom(_, _)
DrawnFrom(l, c) ==
    IF c = 0 THEN 0 ELSE DrawnFrom(l, c - 1) + DrawnIn(costed[c].used, l)

\* C5: over any sequence of outflows of an asset, the total quantity drawn
\* from an inflow lot never exceeds the quantity the lot acquired.
LotsNeverOverdrawn ==
    rejected = {} =>
        \A l \in 1..Len(transactions) :
            IsInflow(transactions[l]) =>
                DrawnFrom(l, Len(costed)) <= transactions[l].amount

(***************************************************************************)
(* Order of processing and zero quantities.                                *)
(***************************************************************************)
\* the transactions in ascending order of timestamp
Chronological ==
    SortBy(transactions, [i \in 1..Len(transactions) |->
                             Num(transactions[i].timestamp)])

\* a new calculator fed txs: its balances and the transactions it rejected
Replay(txs) ==
    LET run[n \in 0..Len(txs)] ==
            IF n = 0 THEN [balances |-> EmptyMap, failed |-> {}]
            ELSE LET r == updateTokenBalances(run[n - 1].balances, txs[n])
                 IN  [ balances |-> r.balances,
                       failed   |-> IF r.threw
                                    THEN run[n - 1].failed \cup {txs[n]}
                                    ELSE run[n - 1].failed ]
    IN  run[Len(txs)]

\* C4: whatever the order of the list fed, the lot state, the failures and
\* the report are those of feeding it in ascending order of timestamp.
OrderIndependent ==
    LET sorted == Replay(Chronological)
    IN  /\ tokenBalances = sorted.balances
        /\ {transactions[i] : i \in rejected} = sorted.failed
        /\ report # <<>> =>
               report[1] = generateTaxReport(Chronological, settings.taxYear)

\* C10: adding a transaction of amount 0 leaves the open quantity and the
\* cost basis of every asset unchanged and adds nothing to the report of
\* any year.
ZeroQuantityStep ==
    Added =>
        LET t == transactions'[Len(transactions')]
        IN  t.amount = 0 =>
                /\ \A x \in DOMAIN tokenBalances' \cup {AssetOf(t)} :
                       BalanceOf(tokenBalances', x) = BalanceOf(tokenBalances, x)
                /\ \A y \in {getFullYear(Now) - 1, getFullYear(Now)} :
                       generateTaxReport(transactions', y)
                           = generateTaxReport(transactions, y)

ZeroQuantityIgnored == [][ZeroQuantityStep]_vars

(***************************************************************************)
(* Transactions of one timestamp.                                          *)
(***************************************************************************)
\* the accepted inflows of the asset of transaction d inserted before it
InflowsBefore(d) ==
    {l \in 1..(d - 1) : /\ l \in Accepted
                        /\ IsInflow(transactions[l])
                        /\ AssetOf(transactions[l]) = AssetOf(transactions[d])}

\* every inflow inserted before outflow d carries the timestamp of d
OnlySameTimestampInflows(d) ==
    /\ IsOutflow(transactions[d])
    /\ InflowsBefore(d) # {}
    /\ \A l \in InflowsBefore(d) :
            transactions[l].timestamp = transactions[d].timestamp

\* C11: an outflow inserted after inflows of its asset that carry its own
\* timestamp is matched against them: the balance update accepts it when
\* they cover it, and the cost-basis method of the active accounting method
\* draws its quantity from them.
SameTimestampMatched ==
    /\ \A d \in 1..Len(transactions) :
            (OnlySameTimestampInflows(d)
                /\ NetFlow(AssetOf(transactions[d]), d - 1) >= transactions[d].amount)
            => d \in Accepted
    /\ \A c \in 1..Len(costed) :
            (OnlySameTimestampInflows(costed[c].disposal)
                /\ costed[c].disposal \in Accepted)
            => \E u \in 1..Len(costed[c].used) :
                    /\ costed[c].used[u].lot \in InflowsBefore(costed[c].disposal)
                    /\ costed[c].used[u].amount > 0

(***************************************************************************)
(* Assets with only inflows.                                               *)
(***************************************************************************)
\* the recorded inflows of calendar year y, by index
Acquisitions(y) ==
    {i \in 1..Len(transactions) :
        IsInflow(transactions[i]) /\ InYear(transactions[i], y)}

\* the assets with inflows and no disposal in calendar year y
InflowOnlyAssets(y) ==
    {AssetOf(transactions[i]) : i \in Acquisitions(y)}
        \ {AssetOf(transactions[i]) : i \in Disposals(y)}

\* C12: an asset with only inflows in the requested year has no entry in
\* the transactions listed by the report, and its inflows are counted in
\* the report's buy-transaction total.
InflowOnlyAssetsAbsent ==
    report # <<>> =>
        LET r == report[1]
        IN  /\ \A x \in InflowOnlyAssets(r.year) :
                    \A k \in 1..Len(r.transactions) :
                        AssetOf(r.transactions[k]) # x
            /\ r.summary.buyTransactions = Cardinality(Acquisitions(r.year))

(***************************************************************************)
(* The tax settings form: handleSettingsChange stores what the user        *)
(* entered, and the effect on taxSettings builds a new calculator from it  *)
(* and feeds it.  validateTaxSettings is exported by the service.          *)
(***************************************************************************)
MaxSettingsTx == 2

validateTaxSettings(s) ==
    (IF s.method \notin {"FIFO", "LIFO", "SPECIFIC_ID"}
     THEN <<"Invalid cost basis method">> ELSE <<>>)
    \o (IF s.longTermThreshold < 0
        THEN <<"Long-term threshold must be positive">> ELSE <<>>)
    \o (IF s.taxYear < 2010 \/ s.taxYear > getFullYear(Now) + 1
        THEN <<"Invalid tax year">> ELSE <<>>)

\* the options of the method select
MethodOptions == {"FIFO", "LIFO", "SPECIFIC_ID"}

\* numbers typed in the tax year and long-term threshold inputs
YearsTyped == {2009, getFullYear(Now) - 1, getFullYear(Now), getFullYear(Now) + 2}

ThresholdsTyped == {0 - 1, 0, 365}

\* setTaxSettings(prev => ({ ...prev, [key]: value })), then the effect on
\* taxSettings: a new TaxCalculator(taxSettings)
handleSettingsChange ==
    /\ \/ \E m \in MethodOptions : settings' = [settings EXCEPT !.method = m]
       \/ \E y \in YearsTyped : settings' = [settings EXCEPT !.taxYear = y]
       \/ \E d \in ThresholdsTyped :
            settings' = [settings EXCEPT !.longTermThreshold = d]
    /\ transactions' = <<>>
    /\ tokenBalances' = EmptyMap
    /\ threw' = FALSE
    /\ rejected' = {}
    /\ sold' = Zero
    /\ report' = <<>>
    /\ costed' = <<>>
    /\ UNCHANGED nonTaxVars

FeedSettings == Feed(ReportInputs, MaxSettingsTx)

NextSettings == handleSettingsChange \/ FeedSettings \/ GenerateTaxReport

SpecSettings == Init /\ [][NextSettings]_vars

\* C13: with settings that fail validateTaxSettings no transaction has been
\* converted and added and no report generated.
InvalidSettingsRejected ==
    validateTaxSettings(settings) # <<>> =>
        transactions = <<>> /\ report = <<>>

(***************************************************************************)
(* The usePortfolioAnalytics hook with a wallet connected and a portfolio  *)
(* loaded: the prerequisites of fetchAnalyticsData hold and the price      *)
(* histories it awaits arrive.  A call of fetchAnalyticsData is the        *)
(* closure of some render: it reads the lastFetchTime and the timePeriod   *)
(* of that render.  Event handlers and effects run the closure of the      *)
(* current render; the timer runs the one startAutoRefresh captured.       *)
(***************************************************************************)
MaxInFlight == 2

\* the state of the components other than the hook
nonHookVars == <<taxVars, cacheVars, riskVars, indicatorVars, historyVars>>

Periods == {"7d", "30d"}

\* the fetchAnalyticsData of the current render
CurrentRender ==
    [ timePeriod       |-> timePeriod,
      sinceLastFetch   |-> sinceLastFetch,
      portfolioLoading |-> portfolioLoading ]

\* fetchAnalyticsData up to its await: the debounce on the closure's
\* lastFetchTime, setLastFetchTime(now), the return when the closure's
\* prerequisites are missing, setAnalytics(loading: true)
fetchAnalyticsData(closure) ==
    IF closure.sinceLastFetch < Debounce
    THEN UNCHANGED <<sinceLastFetch, sinceLastCycle, inFlight, analytics,
                     lastGap, triggered>>
    ELSE /\ sinceLastFetch' = 0
         /\ IF closure.portfolioLoading
            THEN UNCHANGED <<sinceLastCycle, inFlight, analytics, lastGap,
                             triggered>>
            ELSE /\ sinceLastCycle' = 0
                 /\ lastGap' = sinceLastCycle
                 /\ triggered' = closure.timePeriod
                 /\ inFlight' =
                        Append(inFlight, [timePeriod |-> closure.timePeriod])
                 /\ analytics' = [analytics EXCEPT !.loading = TRUE]

\* the effect on [address, isConnected, portfolio.loading,
\* portfolio.totalValue]: its cleanup clears the timer of the previous run,
\* then fetchAnalyticsData() and startAutoRefresh()
PortfolioEffect ==
    /\ ~portfolioLoading
    /\ Len(inFlight) < MaxInFlight
    /\ fetchAnalyticsData(CurrentRender)
    /\ refreshInterval' = [ timePeriod       |-> timePeriod,
                            sinceLastFetch   |-> sinceLastFetch,
                            portfolioLoading |-> FALSE,
                            untilTick        |-> RefreshEvery ]
    /\ UNCHANGED <<timePeriod, portfolioLoading, nonHookVars>>

\* the hook is rendered with another timePeriod; the effect on [timePeriod]
TimePeriodEffect ==
    /\ Len(inFlight) < MaxInFlight
    /\ \E p \in Periods \ {timePeriod} :
        /\ timePeriod' = p
        /\ IF portfolioLoading
           THEN UNCHANGED <<sinceLastFetch, sinceLastCycle, inFlight,
                            analytics, lastGap, triggered>>
           ELSE fetchAnalyticsData([ timePeriod       |-> p,
                                     sinceLastFetch   |-> sinceLastFetch,
                                     portfolioLoading |-> FALSE ])
    /\ UNCHANGED <<refreshInterval, portfolioLoading, nonHookVars>>

\* refresh(), the manual refresh
refresh ==
    /\ Len(inFlight) < MaxInFlight
    /\ fetchAnalyticsData(CurrentRender)
    /\ UNCHANGED <<timePeriod, refreshInterval, portfolioLoading, nonHookVars>>

\* the setInterval callback of startAutoRefresh, every 60 seconds
AutoRefreshTick ==
    /\ Len(inFlight) < MaxInFlight
    /\ refreshInterval # NoInterval
    /\ refreshInterval.untilTick = 0
    /\ fetchAnalyticsData(refreshInterval)
    /\ refreshInterval' = [refreshInterval EXCEPT !.untilTick = RefreshEvery]
    /\ UNCHANGED <<timePeriod, portfolioLoading, nonHookVars>>

\* one second passes
PassTime ==
    /\ refreshInterval # NoInterval => refreshInterval.untilTick > 0
    /\ sinceLastFetch' = Min(sinceLastFetch + 1, Debounce)
    /\ sinceLastCycle' = Min(sinceLastCycle + 1, Debounce)
    /\ refreshInterval' =
            IF refreshInterval = NoInterval THEN NoInterval
            ELSE [ refreshInterval EXCEPT
                     !.sinceLastFetch = Min(@ + 1, Debounce),
                     !.untilTick = @ - 1 ]
    /\ UNCHANGED <<timePeriod, inFlight, analytics, lastGap, triggered,
                   portfolioLoading, nonHookVars>>

\* the price histories of cycle i arrive: the rest of fetchAnalyticsData,
\* setAnalytics with the data computed for the closure's timePeriod
CompleteFetch(i) ==
    /\ i \in 1..Len(inFlight)
    /\ analytics' = [timePeriod |-> inFlight[i].timePeriod, loading |-> FALSE]
    /\ inFlight' = SubSeq(inFlight, 1, i - 1)
                       \o SubSeq(inFlight, i + 1, Len(inFlight))
    /\ UNCHANGED <<timePeriod, sinceLastFetch, refreshInterval, lastGap,
                   triggered, portfolioLoading, sinceLastCycle, nonHookVars>>

Complete == \E i \in 1..MaxInFlight : CompleteFetch(i)

TaxIdle == Constructed(getDefaultTaxSettings)

InitAnalytics ==
    /\ TaxIdle
    /\ CacheEmpty
    /\ RiskIdle
    /\ IndicatorIdle
    /\ HistoryIdle
    /\ \E p \in Periods : HookMounted(p)

NextAnalytics ==
    \/ PortfolioEffect
    \/ TimePeriodEffect
    \/ refresh
    \/ AutoRefreshTick
    \/ PassTime
    \/ Complete

SpecAnalytics == InitAnalytics /\ [][NextAnalytics]_vars

\* C14: the results of a cycle superseded by a later trigger are
\* discarded: whenever the published analytics change to those of another
\* period, that period is the one of the cycle triggered last.
SupersededDiscarded ==
    [][analytics'.timePeriod # analytics.timePeriod
          => analytics'.timePeriod = triggered]_vars

\* C15: no two fetch cycles start less than 5 seconds apart: the time
\* between the last two calls of fetchAnalyticsData that passed the
\* debounce is at least the debounce window.
DebounceSeparatesCycles == lastGap >= Debounce

\* fetches complete, time passes and the timer of startAutoRefresh fires
FairSpecAnalytics ==
    /\ SpecAnalytics
    /\ WF_vars(Complete)
    /\ WF_vars(PassTime)
    /\ WF_vars(AutoRefreshTick)

\* C16: once the hook has run its portfolio effect, a change of timePeriod
\* to p leads to analytics of period p being published, unless the period
\* is changed again first.
PeriodChangePublished ==
    \A p \in Periods :
        (timePeriod = p /\ refreshInterval # NoInterval)
            ~> (analytics.timePeriod = p \/ timePeriod # p)

(***************************************************************************)
(* The price-history cache: getCachedData, setCachedData and               *)
(* getTokenHistoricalPrices of tokenService.                               *)
(***************************************************************************)
MaxClock == 2

MaxLookups == 2

ANALYTICS_CACHE_PREFIX == "portfolio_analytics_"

CACHE_EXPIRY_HOURS == 1

CoinIds == {"ethereum", "dai"}

\* `historical_${coinId}_${period}`
cacheKey(coinId, period) == "historical_" \o coinId \o "_" \o period

\* `${ANALYTICS_CACHE_PREFIX}${key}`
storageKey(key) == ANALYTICS_CACHE_PREFIX \o key

\* mutant: an entry never expires
isExpiredNever(cacheData) == FALSE

\* Date.now() > data.expiry
isExpired(cacheData) == cacheClock > cacheData.expiry

\* getCachedData(key): the entry it returns, <<>> for null
getCachedData(key) ==
    IF storageKey(key) \notin DOMAIN localStorage THEN <<>>
    ELSE IF isExpired(localStorage[storageKey(key)]) THEN <<>>
    ELSE <<localStorage[storageKey(key)]>>

\* localStorage after getCachedData(key): an expired entry is removed
afterGetCachedData(key) ==
    IF storageKey(key) \in DOMAIN localStorage
       /\ isExpired(localStorage[storageKey(key)])
    THEN [k \in DOMAIN localStorage \ {storageKey(key)} |-> localStorage[k]]
    ELSE localStorage

\* localStorage after setCachedData(key, data)
setCachedData(key, data) ==
    [k \in DOMAIN localStorage \cup {storageKey(key)} |->
        IF k = storageKey(key)
        THEN [ data      |-> data,
               timestamp |-> cacheClock,
               expiry    |-> cacheClock + CACHE_EXPIRY_HOURS ]
        ELSE localStorage[k]]

\* the series the price API serves for a coin and a period at this time
historicalPrices(coinId, period) ==
    [coinId |-> coinId, period |-> period, asOf |-> cacheClock]

\* getTokenHistoricalPrices(coinId, period) up to its await: the cached
\* series is returned, or the fetch is sent
StartLookup(coinId, period) ==
    LET key    == cacheKey(coinId, period)
        cached == getCachedData(key)
    IN  /\ localStorage' = afterGetCachedData(key)
        /\ IF cached # <<>>
           THEN /\ returned' = [ coinId |-> coinId, period |-> period,
                                 cached |-> TRUE, data |-> cached[1].data,
                                 at |-> cacheClock,
                                 expiry |-> cached[1].expiry ]
                /\ UNCHANGED lookups
           ELSE /\ Len(lookups) < MaxLookups
                /\ lookups' = Append(lookups, [coinId |-> coinId,
                                               period |-> period])
                /\ UNCHANGED returned
        /\ UNCHANGED cacheClock

getTokenHistoricalPrices ==
    /\ \E coinId \in CoinIds, period \in Periods : StartLookup(coinId, period)
    /\ UNCHANGED <<taxVars, hookVars, riskVars, indicatorVars, historyVars>>

Without(seq, i) == SubSeq(seq, 1, i - 1) \o SubSeq(seq, i + 1, Len(seq))

\* the response of lookup i arrives: the series is cached and returned
FetchResponds ==
    /\ \E i \in 1..Len(lookups) :
        LET l    == lookups[i]
            data == historicalPrices(l.coinId, l.period)
        IN  /\ localStorage' = setCachedData(cacheKey(l.coinId, l.period), data)
            /\ returned' = [ coinId |-> l.coinId, period |-> l.period,
                             cached |-> FALSE, data |-> data,
                             at |-> cacheClock, expiry |-> 0 ]
            /\ lookups' = Without(lookups, i)
    /\ UNCHANGED <<cacheClock, taxVars, hookVars, riskVars, indicatorVars,
                   historyVars>>

\* the fetch of lookup i fails: the catch returns []
FetchFails ==
    /\ \E i \in 1..Len(lookups) :
        LET l == lookups[i]
        IN  /\ returned' = [ coinId |-> l.coinId, period |-> l.period,
                             cached |-> FALSE, data |-> <<>>,
                             at |-> cacheClock, expiry |-> 0 ]
            /\ lookups' = Without(lookups, i)
    /\ UNCHANGED <<cacheClock, localStorage, taxVars, hookVars, riskVars,
                   indicatorVars, historyVars>>

\* an hour passes
CacheClockTick ==
    /\ cacheClock < MaxClock
    /\ cacheClock' = cacheClock + 1
    /\ UNCHANGED <<localStorage, lookups, returned, taxVars, hookVars,
                   riskVars, indicatorVars, historyVars>>

InitCache ==
    TaxIdle /\ HookMounted("30d") /\ RiskIdle /\ IndicatorIdle /\ HistoryIdle
    /\ CacheEmpty

NextCache ==
    \/ getTokenHistoricalPrices
    \/ FetchResponds
    \/ FetchFails
    \/ CacheClockTick

SpecCache == InitCache /\ [][NextCache]_vars

\* the unexpired entry stored for a coin and a period, if any
ValidEntry(coinId, period) ==
    LET k == storageKey(cacheKey(coinId, period))
    IN  k \in DOMAIN localStorage /\ cacheClock <= localStorage[k].expiry

\* a fetch was sent in this step, for the lookup added last
FetchSent == Len(lookups') = Len(lookups) + 1

\* a series was returned from the cache in this step
ServedFromCache == returned' # returned /\ returned'.cached

\* a fetch is sent only when no unexpired entry is stored for its key, and
\* the expired entry is removed; a series served from the cache is the one
\* stored for the key asked, and no fetch is sent
CacheLookupStep ==
    /\ FetchSent =>
        LET l == lookups'[Len(lookups')]
        IN  /\ ~ValidEntry(l.coinId, l.period)
            /\ storageKey(cacheKey(l.coinId, l.period)) \notin DOMAIN localStorage'
    /\ ServedFromCache =>
        /\ ValidEntry(returned'.coinId, returned'.period)
        /\ returned'.data =
             localStorage[storageKey(cacheKey(returned'.coinId,
                                              returned'.period))].data
        /\ UNCHANGED <<lookups, localStorage>>
    /\ (\E c \in CoinIds, p \in Periods : StartLookup(c, p) /\ ValidEntry(c, p))
            => lookups' = lookups

\* C17: price-history lookups are cached for one hour by (asset, period):
\* a series returned from the cache had not expired when it was returned
\* and is the series of the asset and period asked for; an expired entry
\* is removed and refetched; a lookup within the hour returns the stored
\* series without a fetch.
CacheServesFreshOwnKey ==
    /\ [](returned.cached =>
            /\ returned.at <= returned.expiry
            /\ returned.expiry - returned.at <= CACHE_EXPIRY_HOURS
            /\ returned.data.coinId = returned.coinId
            /\ returned.data.period = returned.period)
    /\ [][CacheLookupStep]_vars

\* C17 witness: a series fetched after the first entry of its key expired
\* is served from the cache at the last moment of its hour, while an
\* entry of another period of the same asset is stored.
CacheServesFreshOwnKeyWitness ==
    /\ returned.cached
    /\ returned.at = returned.expiry
    /\ returned.data.asOf > 0
    /\ \E p \in Periods \ {returned.period} :
            storageKey(cacheKey(returned.coinId, p)) \in DOMAIN localStorage

\* C18: an entry that has not expired is still stored, with the same data
\* and the same expiry, after every step.
CacheEntriesImmutable ==
    [][\A k \in DOMAIN localStorage :
          cacheClock <= localStorage[k].expiry
              => /\ k \in DOMAIN localStorage'
                 /\ localStorage'[k] = localStorage[k]]_vars

(***************************************************************************)
(* riskService.  Numbers are exact fractions, as above; a number built on  *)
(* Math.sqrt is kept as sign * times * sqrt(sq), with times and sq         *)
(* fractions, so that the metrics built on a square root stay exact.       *)
(* Prices are positive, so a quotient with a zero denominator has a zero   *)
(* numerator and is NaN.                                                   *)
(***************************************************************************)
MaxTokens == 2

Sign(x) == IF x.n > 0 THEN 1 ELSE IF x.n < 0 THEN 0 - 1 ELSE 0

\* the number |x|
Magnitude(x) == IF IsNaN(x) THEN NaN ELSE Rat(Abs(x.n), x.d)

NaNRoot == [sign |-> 0, times |-> NaN, sq |-> NaN]

IsNaNRoot(r) == IsNaN(r.sq) \/ IsNaN(r.times)

\* the number x as a signed root: sign * |x| * sqrt(1)
RootOf(x) ==
    IF IsNaN(x) THEN NaNRoot
    ELSE [sign |-> Sign(x), times |-> Magnitude(x), sq |-> Num(1)]

\* Math.sqrt(x)
Sqrt(x) ==
    IF IsNaN(x) \/ x.n < 0 THEN NaNRoot
    ELSE [sign |-> Sign(x), times |-> Num(1), sq |-> x]

\* r * x, r a root and x a number
RootTimes(r, x) ==
    IF IsNaNRoot(r) \/ IsNaN(x) THEN NaNRoot
    ELSE [ sign  |-> r.sign * Sign(x),
           times |-> Times(r.times, Magnitude(x)),
           sq    |-> r.sq ]

\* r * s, both roots
RootProduct(r, s) ==
    IF IsNaNRoot(r) \/ IsNaNRoot(s) THEN NaNRoot
    ELSE [ sign  |-> r.sign * s.sign,
           times |-> Times(r.times, s.times),
           sq    |-> Times(r.sq, s.sq) ]

\* x / r, r a root other than 0: x / (t * sqrt(q)) = (x / (t * q)) * sqrt(q)
OverRoot(x, r) ==
    IF IsNaNRoot(r) \/ IsNaN(x) \/ r.sign = 0 THEN NaNRoot
    ELSE [ sign  |-> Sign(x) * r.sign,
           times |-> Over(Magnitude(x), Times(r.times, r.sq)),
           sq    |-> r.sq ]

\* the square of the root r
Squared(r) == Times(Times(r.times, r.times), r.sq)

\* r < x, r a root and x a number that is not negative
RootLess(r, x) ==
    ~IsNaNRoot(r) /\ (r.sign < 0 \/ Less(Squared(r), Times(x, x)))

\* x || 0
OrZero(x) == IF IsNaN(x) THEN Zero ELSE x

\* Math.max(a, b)
Max(a, b) == IF IsNaN(a) \/ IsNaN(b) THEN NaN ELSE IF Less(a, b) THEN b ELSE a

\* Math.min(...lengths)
MinLength(lengths) ==
    CHOOSE n \in lengths : \A k \in lengths : n <= k

\* symbolToId[token.symbol] || token.symbol.toLowerCase()
symbolToId(symbol) ==
    CASE symbol = "ETH" -> "ethereum"
      [] symbol = "WETH" -> "weth"
      [] symbol = "USDC" -> "usd-coin"
      [] symbol = "USDT" -> "tether"
      [] symbol = "DAI" -> "dai"
      [] symbol = "WBTC" -> "wrapped-bitcoin"
      [] symbol = "UNI" -> "uniswap"
      [] symbol = "AAVE" -> "aave"
      [] symbol = "LINK" -> "chainlink"
      [] OTHER -> toLowerCase(symbol)

\* TOKEN_CATEGORIES.find(cat => cat.tokens.includes(symbol)), or 'Other'
sectorOf(symbol) ==
    CASE symbol \in {"ETH", "BTC", "SOL", "ADA", "DOT", "AVAX"}
            -> "Layer 1 Blockchains"
      [] symbol \in {"UNI", "AAVE", "COMP", "CRV", "BAL", "SUSHI"}
            -> "DeFi Protocols"
      [] symbol \in {"USDC", "USDT", "DAI", "BUSD", "FRAX"} -> "Stablecoins"
      [] symbol \in {"DOGE", "SHIB", "PEPE", "FLOKI"} -> "Meme Coins"
      [] symbol \in {"LINK", "MATIC", "ATOM", "NEAR", "FTM"} -> "Infrastructure"
      [] OTHER -> "Other"

coinIdsOf(toks) == [j \in 1..Len(toks) |-> symbolToId(toks[j].symbol)]

\* getMultipleTokenHistoricalPrices(coinIds, period): every lookup is
\* fulfilled, a failed fetch with []
getMultipleTokenHistoricalPrices(coinIds, data) ==
    [id \in {coinIds[j] : j \in 1..Len(coinIds)} |-> data[id]]

\* tokens.reduce((sum, token) => sum + (token.usdValue || 0), 0)
totalValueOf(toks) == SumOf([j \in 1..Len(toks) |-> OrZero(toks[j].usdValue)])

calculateReturns(prices) ==
    IF Len(prices) < 2 THEN <<>>
    ELSE [i \in 1..(Len(prices) - 1) |->
            Over(Minus(prices[i + 1], prices[i]), prices[i])]

calculateCovariance(returns1, returns2) ==
    IF Len(returns1) # Len(returns2) \/ Len(returns1) = 0 THEN Zero
    ELSE LET mean1 == Over(SumOf(returns1), Num(Len(returns1)))
             mean2 == Over(SumOf(returns2), Num(Len(returns2)))
         IN  Over(SumOf([i \in 1..Len(returns1) |->
                            Times(Minus(returns1[i], mean1),
                                  Minus(returns2[i], mean2))]),
                  Num(Len(returns1)))

calculateVariance(returns) ==
    IF Len(returns) = 0 THEN Zero
    ELSE LET mean == Over(SumOf(returns), Num(Len(returns)))
         IN  Over(SumOf([i \in 1..Len(returns) |->
                            Times(Minus(returns[i], mean),
                                  Minus(returns[i], mean))]),
                  Num(Len(returns)))

calculateCorrelation(returns1, returns2) ==
    IF Len(returns1) # Len(returns2) \/ Len(returns1) = 0 THEN RootOf(Zero)
    ELSE LET covariance == calculateCovariance(returns1, returns2)
             stdDev1    == Sqrt(calculateVariance(returns1))
             stdDev2    == Sqrt(calculateVariance(returns2))
         IN  IF (~IsNaNRoot(stdDev1) /\ stdDev1.sign = 0)
                \/ (~IsNaNRoot(stdDev2) /\ stdDev2.sign = 0)
             THEN RootOf(Zero)
             ELSE IF IsNaNRoot(stdDev1) \/ IsNaNRoot(stdDev2) THEN NaNRoot
             ELSE OverRoot(covariance, RootProduct(stdDev1, stdDev2))

calculatePortfolioVolatility(toks, data) ==
    IF Len(toks) = 0 THEN RootOf(Zero)
    ELSE LET coinIds        == coinIdsOf(toks)
             fetched        == getMultipleTokenHistoricalPrices(coinIds, data)
             dailyReturns   == [id \in DOMAIN fetched |->
                                    calculateReturns(fetched[id])]
             totalValue     == totalValueOf(toks)
             weights        == [j \in 1..Len(toks) |->
                                    Over(OrZero(toks[j].usdValue), totalValue)]
             term(i, j)     ==
                 IF Less(Zero, weights[i]) /\ Less(Zero, weights[j])
                 THEN Times(Times(weights[i], weights[j]),
                            calculateCovariance(dailyReturns[coinIds[i]],
                                                dailyReturns[coinIds[j]]))
                 ELSE Zero
             portfolioVariance ==
                 SumOf([i \in 1..Len(toks) |->
                           SumOf([j \in 1..Len(toks) |-> term(i, j)])])
             dailyVolatility == Sqrt(portfolioVariance)
         IN  RootProduct(dailyVolatility, Sqrt(Num(365)))

calculateVaR(toks, data) ==
    RootTimes(calculatePortfolioVolatility(toks, data),
              Times(totalValueOf(toks), Rat(1645, 1000)))

\* the value series; [] when Math.min of no length makes the loop throw
calculateHistoricalPortfolioValues(toks, data) ==
    IF Len(toks) = 0 THEN <<>>
    ELSE LET coinIds   == coinIdsOf(toks)
             fetched   == getMultipleTokenHistoricalPrices(coinIds, data)
             minLength == MinLength({Len(fetched[id]) : id \in DOMAIN fetched})
         IN  [i \in 1..minLength |->
                SumOf([j \in 1..Len(toks) |->
                    IF i <= Len(fetched[coinIds[j]])
                    THEN Times(OrZero(toks[j].usdValue),
                               Over(fetched[coinIds[j]][i],
                                    IF toks[j].price.n = 0 THEN Num(1)
                                    ELSE toks[j].price))
                    ELSE Zero])]

\* mutant: the peak is never raised above the first value
calculateMaxDrawdownFirstPeak(toks, data) ==
    IF Len(toks) = 0 THEN Zero
    ELSE LET portfolioValues == calculateHistoricalPortfolioValues(toks, data)
             first == IF Len(portfolioValues) = 0 THEN Zero
                      ELSE OrZero(portfolioValues[1])
             walk[i \in 0..Len(portfolioValues)] ==
                 IF i = 0 THEN [peak |-> first, maxDrawdown |-> Zero]
                 ELSE LET value    == portfolioValues[i]
                          peak     == walk[i - 1].peak
                          drawdown == Over(Minus(peak, value), peak)
                      IN  [ peak |-> peak,
                            maxDrawdown |->
                                IF Less(walk[i - 1].maxDrawdown, drawdown)
                                THEN drawdown
                                ELSE walk[i - 1].maxDrawdown ]
         IN  Times(walk[Len(portfolioValues)].maxDrawdown, Num(100))

calculateMaxDrawdown(toks, data) ==
    IF Len(toks) = 0 THEN Zero
    ELSE LET portfolioValues == calculateHistoricalPortfolioValues(toks, data)
             first == IF Len(portfolioValues) = 0 THEN Zero
                      ELSE OrZero(portfolioValues[1])
             walk[i \in 0..Len(portfolioValues)] ==
                 IF i = 0 THEN [peak |-> first, maxDrawdown |-> Zero]
                 ELSE LET value    == portfolioValues[i]
                          peak     == IF Less(walk[i - 1].peak, value)
                                      THEN value ELSE walk[i - 1].peak
                          drawdown == Over(Minus(peak, value), peak)
                      IN  [ peak |-> peak,
                            maxDrawdown |->
                                IF Less(walk[i - 1].maxDrawdown, drawdown)
                                THEN drawdown
                                ELSE walk[i - 1].maxDrawdown ]
         IN  Times(walk[Len(portfolioValues)].maxDrawdown, Num(100))

calculateSharpeRatio(toks, data) ==
    LET portfolioValues == calculateHistoricalPortfolioValues(toks, data)
    IN  IF Len(portfolioValues) < 2 THEN RootOf(Zero)
        ELSE LET returns   == calculateReturns(portfolioValues)
                 avgReturn == Over(SumOf(returns), Num(Len(returns)))
                 stdDev    == Sqrt(calculateVariance(returns))
             IN  IF ~IsNaNRoot(stdDev) /\ stdDev.sign = 0 THEN RootOf(Zero)
                 ELSE IF IsNaNRoot(stdDev) THEN NaNRoot
                 ELSE OverRoot(Minus(Times(avgReturn, Num(365)), Rat(2, 100)),
                               RootProduct(stdDev, Sqrt(Num(365))))

calculateBeta(toks, data) ==
    LET portfolioValues == calculateHistoricalPortfolioValues(toks, data)
        ethPrices       == data["ethereum"]
    IN  IF Len(portfolioValues) < 2 \/ Len(ethPrices) < 2 THEN Num(1)
        ELSE LET portfolioReturns == calculateReturns(portfolioValues)
                 ethReturns       == calculateReturns(ethPrices)
                 covariance  == calculateCovariance(portfolioReturns, ethReturns)
                 ethVariance == calculateVariance(ethReturns)
             IN  IF Less(Zero, ethVariance) THEN Over(covariance, ethVariance)
                 ELSE Num(1)

\* mutant: the diagonal is computed like every other entry
calculateCorrelationMatrixUnforced(toks, data) ==
    LET coinIds == coinIdsOf(toks)
        symbols == {toks[j].symbol : j \in 1..Len(toks)}
        \* the last (i, j) of the loops to write the cell of symbols a, b
        lastOf(S) == CHOOSE i \in S : \A k \in S : k <= i
        cell(a, b) ==
            LET i == lastOf({k \in 1..Len(toks) : toks[k].symbol = a})
                j == lastOf({k \in 1..Len(toks) : toks[k].symbol = b})
            IN  IF FALSE THEN RootOf(Num(1))
                ELSE calculateCorrelation(calculateReturns(data[coinIds[i]]),
                                          calculateReturns(data[coinIds[j]]))
    IN  [a \in symbols |-> [b \in symbols |-> cell(a, b)]]

calculateCorrelationMatrix(toks, data) ==
    LET coinIds == coinIdsOf(toks)
        symbols == {toks[j].symbol : j \in 1..Len(toks)}
        \* the last (i, j) of the loops to write the cell of symbols a, b
        lastOf(S) == CHOOSE i \in S : \A k \in S : k <= i
        cell(a, b) ==
            LET i == lastOf({k \in 1..Len(toks) : toks[k].symbol = a})
                j == lastOf({k \in 1..Len(toks) : toks[k].symbol = b})
            IN  IF i = j THEN RootOf(Num(1))
                ELSE calculateCorrelation(calculateReturns(data[coinIds[i]]),
                                          calculateReturns(data[coinIds[j]]))
    IN  [a \in symbols |-> [b \in symbols |-> cell(a, b)]]

calculateDiversificationScore(toks) ==
    IF Len(toks) = 0 THEN Zero
    ELSE LET totalValue == totalValueOf(toks)
             hhi == SumOf([j \in 1..Len(toks) |->
                        LET weight == Over(OrZero(toks[j].usdValue), totalValue)
                        IN  Times(weight, weight)])
         IN  Max(Zero, Minus(Num(100), Times(hhi, Num(100))))

calculateSectorAllocation(toks) ==
    LET totalValue == totalValueOf(toks)
        sectors    == {sectorOf(toks[j].symbol) : j \in 1..Len(toks)}
    IN  [sector \in sectors |->
            Times(Over(SumOf([j \in 1..Len(toks) |->
                                IF sectorOf(toks[j].symbol) = sector
                                THEN OrZero(toks[j].usdValue) ELSE Zero]),
                       totalValue),
                  Num(100))]

calculateConcentrationRisk(toks) ==
    IF Len(toks) = 0 THEN Zero
    ELSE LET totalValue == totalValueOf(toks)
             largest[j \in 1..Len(toks)] ==
                 IF j = 1 THEN OrZero(toks[1].usdValue)
                 ELSE Max(largest[j - 1], OrZero(toks[j].usdValue))
         IN  Times(Over(largest[Len(toks)], totalValue), Num(100))

\* the risk score from the three thresholds
riskScoreOf(volatility, concentrationRisk, diversificationScore) ==
    IF /\ RootLess(volatility, Rat(3, 10))
       /\ Less(concentrationRisk, Num(30))
       /\ Less(Num(70), diversificationScore)
    THEN "low"
    ELSE IF /\ RootLess(volatility, Rat(6, 10))
            /\ Less(concentrationRisk, Num(50))
            /\ Less(Num(40), diversificationScore)
    THEN "medium"
    ELSE "high"

\* calculateRiskMetrics(tokens); no sub-metric throws, each has its catch
calculateRiskMetrics(toks, data) ==
    LET volatility           == calculatePortfolioVolatility(toks, data)
        diversificationScore == calculateDiversificationScore(toks)
        concentrationRisk    == calculateConcentrationRisk(toks)
    IN  [ volatility           |-> volatility,
          riskScore            |-> riskScoreOf(volatility, concentrationRisk,
                                               diversificationScore),
          var95                |-> calculateVaR(toks, data),
          maxDrawdown          |-> calculateMaxDrawdown(toks, data),
          sharpeRatio          |-> calculateSharpeRatio(toks, data),
          beta                 |-> calculateBeta(toks, data),
          correlationMatrix    |-> calculateCorrelationMatrix(toks, data),
          diversificationScore |-> diversificationScore,
          concentrationRisk    |-> concentrationRisk,
          sectorAllocation     |-> calculateSectorAllocation(toks) ]

\* the holdings: ETH at $2 and DAI at $1, worth $100 or nothing
Holdings ==
    { [symbol |-> s, usdValue |-> Num(v), price |-> Num(IF s = "ETH" THEN 2 ELSE 1)] :
        s \in {"ETH", "DAI"}, v \in {0, 100} }

\* a wallet of $6000 of ETH and $4000 of USDC
PairWallet ==
    << [symbol |-> "ETH", usdValue |-> Num(6000), price |-> Num(2)],
       [symbol |-> "USDC", usdValue |-> Num(4000), price |-> Num(1)] >>

TokenLists ==
    UNION {[1..n -> Holdings] : n \in 0..MaxTokens} \cup {PairWallet}

\* the coins whose 30d series may be fetched
HeldCoinIds == {"ethereum", "dai", "usd-coin"}

\* the 30d series of a coin: a failed fetch, one point, or more
Histories ==
    { <<>>, <<Num(2)>>, <<Num(2), Num(1)>>, <<Num(1), Num(2), Num(1)>>,
      <<Num(2), Num(1), Num(2)>>, <<Num(2), Num(2), Num(2)>> }

InitRisk ==
    /\ TaxIdle
    /\ HookMounted("30d")
    /\ CacheEmpty
    /\ IndicatorIdle
    /\ HistoryIdle
    /\ tokens \in TokenLists
    /\ historicalData \in [HeldCoinIds -> Histories]
    \* the series of the held coins, and of ethereum for the beta, are fetched
    /\ \A id \in HeldCoinIds :
          (id # "ethereum" /\ \A j \in 1..Len(tokens) :
                                  symbolToId(tokens[j].symbol) # id)
              => historicalData[id] = <<>>
    /\ riskMetrics = <<>>

CalculateRiskMetrics ==
    /\ riskMetrics = <<>>
    /\ riskMetrics' = <<calculateRiskMetrics(tokens, historicalData)>>
    /\ UNCHANGED <<tokens, historicalData, taxVars, hookVars, cacheVars,
                   indicatorVars, historyVars>>

NextRisk == CalculateRiskMetrics

SpecRisk == InitRisk /\ [][NextRisk]_vars

(***************************************************************************)
(* Claims on riskService.                                                  *)
(***************************************************************************)
\* the held assets whose price history was fetched
succeeded(toks, data) ==
    LET fetchedOk(t) == data[symbolToId(t.symbol)] # <<>>
    IN  SelectSeq(toks, fetchedOk)

\* one held asset's history is empty and the histories of the others are not
OneFetchFailed(toks, data) ==
    /\ succeeded(toks, data) # <<>>
    /\ Len(succeeded(toks, data)) < Len(toks)

\* C19: when the price history of one held asset is empty and the others
\* were fetched, the metrics built on the portfolio-value series (max
\* drawdown, Sharpe ratio, beta) are those of the assets that were fetched:
\* the failed asset is skipped and the series does not collapse.
FailureIsolated ==
    (riskMetrics # <<>> /\ OneFetchFailed(tokens, historicalData)) =>
        LET ok == succeeded(tokens, historicalData)
        IN  /\ Len(calculateHistoricalPortfolioValues(tokens, historicalData))
                 = Len(calculateHistoricalPortfolioValues(ok, historicalData))
            /\ riskMetrics[1].maxDrawdown
                 = calculateMaxDrawdown(ok, historicalData)
            /\ riskMetrics[1].sharpeRatio
                 = calculateSharpeRatio(ok, historicalData)
            /\ riskMetrics[1].beta = calculateBeta(ok, historicalData)

RiskMetricsFields ==
    { "volatility", "riskScore", "var95", "maxDrawdown", "sharpeRatio", "beta",
      "correlationMatrix", "diversificationScore", "concentrationRisk",
      "sectorAllocation" }

\* C20: the result of calculateRiskMetrics has every field of RiskMetrics
\* and no field of it, nor any entry of its two tables, is not-a-number,
\* whatever the holdings and their price histories.
RiskMetricsComplete ==
    riskMetrics # <<>> =>
        LET m == riskMetrics[1]
        IN  /\ DOMAIN m = RiskMetricsFields
            /\ ~IsNaNRoot(m.volatility)
            /\ ~IsNaNRoot(m.var95)
            /\ ~IsNaNRoot(m.sharpeRatio)
            /\ ~IsNaN(m.maxDrawdown)
            /\ ~IsNaN(m.beta)
            /\ ~IsNaN(m.diversificationScore)
            /\ ~IsNaN(m.concentrationRisk)
            /\ \A s \in DOMAIN m.sectorAllocation :
                  ~IsNaN(m.sectorAllocation[s])
            /\ \A a \in DOMAIN m.correlationMatrix :
                  \A b \in DOMAIN m.correlationMatrix[a] :
                      ~IsNaNRoot(m.correlationMatrix[a][b])

(***************************************************************************)
(* A failed addTransaction.                                                *)
(***************************************************************************)
\* the step of an addTransaction that threw
FailedAddStep == rejected' # rejected

\* C28: an addTransaction that raises the insufficient-balance failure
\* leaves the transaction list and the balances as they were before the
\* call, and the rejected outflow is not among the transactions of a later
\* report.
FailedAddAtomic ==
    /\ [][FailedAddStep => /\ transactions' = transactions
                           /\ tokenBalances' = tokenBalances]_vars
    /\ [](report # <<>> =>
            Len(report[1].transactions) =
                Cardinality({i \in Accepted :
                                InYear(transactions[i], report[1].year)}))

(***************************************************************************)
(* Max drawdown.                                                           *)
(***************************************************************************)
\* the portfolio-value series the metrics were computed from
ValueSeries == calculateHistoricalPortfolioValues(tokens, historicalData)

\* the largest of the first i values
RunningPeak(values, i) ==
    CHOOSE p \in {values[k] : k \in 1..i} :
        \A k \in 1..i : ~Less(p, values[k])

\* (running peak - value) / running peak at every point with a positive
\* peak, as a percentage
DrawdownsOf(values) ==
    { Times(Over(Minus(RunningPeak(values, i), values[i]),
                 RunningPeak(values, i)), Num(100)) :
        i \in {k \in 1..Len(values) : Less(Zero, RunningPeak(values, k))} }

LargestOf(S) == CHOOSE x \in S : \A y \in S : ~Less(x, y)

NonDecreasing(values) ==
    \A i \in 1..(Len(values) - 1) : ~Less(values[i + 1], values[i])

\* the series doubles and then halves: v, 2v, v
DoublesThenHalves(values) ==
    /\ Len(values) = 3
    /\ Less(Zero, values[1])
    /\ values[2] = Times(values[1], Num(2))
    /\ values[3] = values[1]

\* C22: the max drawdown is 0 for a value series that never decreases, 50
\* (percent) for one that doubles and then halves, and always the largest,
\* over the points of the series, of (running peak - value) / running peak
\* as a percentage (0 when no point has a positive peak).
MaxDrawdownIsPeakToTrough ==
    riskMetrics # <<>> =>
        LET maxDrawdown == riskMetrics[1].maxDrawdown
        IN  /\ NonDecreasing(ValueSeries) => maxDrawdown = Zero
            /\ DoublesThenHalves(ValueSeries) => maxDrawdown = Num(50)
            /\ maxDrawdown = LargestOf(DrawdownsOf(ValueSeries) \cup {Zero})

\* C22 witness: $100 of ETH whose price went 1, 2, 1: values 50, 100, 50 and
\* a max drawdown of 50%.
MaxDrawdownWitness ==
    /\ riskMetrics # <<>>
    /\ ValueSeries = <<Num(50), Num(100), Num(50)>>
    /\ riskMetrics[1].maxDrawdown = Num(50)

(***************************************************************************)
(* Diversification score.                                                  *)
(***************************************************************************)
\* the value weights of the holdings: each asset's share of the total value
ValueWeights ==
    [j \in 1..Len(tokens) |-> Over(tokens[j].usdValue, totalValueOf(tokens))]

HasValueWeights == Less(Zero, totalValueOf(tokens))

\* one asset holds the whole value
SingleAssetHoldsAll == \E j \in 1..Len(tokens) : ValueWeights[j] = Num(1)

\* every asset holds the same, positive, value
EquallyWeighted ==
    /\ HasValueWeights
    /\ \A j \in 1..Len(tokens) : tokens[j].usdValue = tokens[1].usdValue

\* the score is max(0, 100 - 100 * the sum of the squared weights), 0 when
\* one asset holds the whole value and 100 - 100/n for n equal holdings
ScoreIsHHI(score) ==
    LET hhi == SumOf([j \in 1..Len(tokens) |->
                        Times(ValueWeights[j], ValueWeights[j])])
    IN  /\ tokens # <<>> =>
              score = Max(Zero, Minus(Num(100), Times(hhi, Num(100))))
        /\ SingleAssetHoldsAll => score = Zero
        /\ EquallyWeighted =>
              score = Minus(Num(100), Over(Num(100), Num(Len(tokens))))

\* C23: the diversification score is max(0, 100 - 100 * the sum of the
\* squared value weights); it is 0 when one asset holds the whole value, it
\* always lies in [0, 100], and it is 100 - 100/n for n equally weighted
\* assets.
DiversificationScoreIsHHI ==
    riskMetrics # <<>> =>
        LET score == riskMetrics[1].diversificationScore
        IN  /\ ScoreIsHHI(score)
            /\ ~IsNaN(score) /\ ~Less(score, Zero) /\ ~Less(Num(100), score)

(***************************************************************************)
(* Correlation matrix and concentration risk.                              *)
(***************************************************************************)
HeldSymbols == {tokens[j].symbol : j \in 1..Len(tokens)}

\* the root r is the number 1
IsOne(r) == ~IsNaNRoot(r) /\ r.sign = 1 /\ Squared(r) = Num(1)

\* C24: the correlation matrix of non-empty holdings has an entry for every
\* ordered pair of held assets, is symmetric and has 1 on its diagonal; for
\* $6000 of ETH and $4000 of USDC the diagonal is 1, 1 and the concentration
\* risk is 60 (percent).
CorrelationMatrixShape ==
    (riskMetrics # <<>> /\ tokens # <<>>) =>
        LET matrix == riskMetrics[1].correlationMatrix
        IN  /\ DOMAIN matrix = HeldSymbols
            /\ \A a \in HeldSymbols :
                  /\ DOMAIN matrix[a] = HeldSymbols
                  /\ IsOne(matrix[a][a])
                  /\ \A b \in HeldSymbols : matrix[a][b] = matrix[b][a]
            /\ tokens = PairWallet =>
                  /\ IsOne(matrix["ETH"]["ETH"])
                  /\ IsOne(matrix["USDC"]["USDC"])
                  /\ riskMetrics[1].concentrationRisk = Num(60)

\* C24 witness: the metrics of $6000 of ETH and $4000 of USDC whose return
\* series are correlated (the entry off the diagonal is not 0).
CorrelationMatrixWitness ==
    /\ riskMetrics # <<>>
    /\ tokens = PairWallet
    /\ riskMetrics[1].concentrationRisk = Num(60)
    /\ riskMetrics[1].correlationMatrix["ETH"]["USDC"].sign = 0 - 1
    /\ riskMetrics[1].correlationMatrix["USDC"]["ETH"].sign = 0 - 1

(***************************************************************************)
(* Beta.                                                                   *)
(***************************************************************************)
\* the reference series of the beta and the two return series
ReferencePrices == historicalData["ethereum"]

PortfolioReturns == calculateReturns(ValueSeries)

ReferenceReturns == calculateReturns(ReferencePrices)

\* there is too little history, the two return series differ in length, or
\* the reference returns have no variance
BetaNotComputable ==
    \/ Len(ValueSeries) < 2
    \/ Len(ReferencePrices) < 2
    \/ Len(PortfolioReturns) # Len(ReferenceReturns)
    \/ calculateVariance(ReferenceReturns) = Zero

\* C25: beta is the covariance of the portfolio returns with the reference
\* returns over the variance of the reference returns, and 1 when the
\* reference has no variance, the history is too short, or the two return
\* series are not of the same length.
BetaIsCovarianceOverVariance ==
    riskMetrics # <<>> =>
        riskMetrics[1].beta =
            IF BetaNotComputable THEN Num(1)
            ELSE Over(calculateCovariance(PortfolioReturns, ReferenceReturns),
                      calculateVariance(ReferenceReturns))

(***************************************************************************)
(* Zero standard deviation.                                                *)
(***************************************************************************)
\* the return series of the held asset with symbol a
ReturnsOf(a) == calculateReturns(historicalData[symbolToId(a)])

\* the root r is the number 0
IsZeroRoot(r) == ~IsNaNRoot(r) /\ r.sign = 0

ConstantSeries(values) ==
    \A i \in 1..Len(values) : values[i] = values[1]

\* C26: the correlation of a return series of zero variance with any other
\* series is 0, and the Sharpe ratio of a constant portfolio-value series
\* is 0: neither is not-a-number, nothing is divided by a zero standard
\* deviation.
ZeroDeviationGivesZero ==
    riskMetrics # <<>> =>
        /\ \A a \in HeldSymbols, b \in HeldSymbols :
              (a # b /\ calculateVariance(ReturnsOf(a)) = Zero) =>
                  /\ IsZeroRoot(riskMetrics[1].correlationMatrix[a][b])
                  /\ IsZeroRoot(riskMetrics[1].correlationMatrix[b][a])
        /\ ConstantSeries(ValueSeries) => IsZeroRoot(riskMetrics[1].sharpeRatio)

(***************************************************************************)
(* advancedAnalyticsService: the relative strength index.                  *)
(***************************************************************************)
MaxPoints == 16
MaxStart == 3

\* the default of the period parameter
Period == 14

\* calculateRSI(prices, period)
calculateRSI(prices, period) ==
    IF Len(prices) < period + 1 THEN Num(50)
    ELSE LET change(i) == Minus(prices[i + 1], prices[i])
             gains  == SumOf([i \in 1..period |->
                          IF Less(Zero, change(i)) THEN change(i) ELSE Zero])
             losses == SumOf([i \in 1..period |->
                          IF Less(Zero, change(i)) THEN Zero
                          ELSE Minus(Zero, change(i))])
             avgGain == Over(gains, Num(period))
             avgLoss == Over(losses, Num(period))
         IN  IF avgLoss = Zero THEN Num(100)
             ELSE LET rs == Over(avgGain, avgLoss)
                  IN  Minus(Num(100), Over(Num(100), Plus(Num(1), rs)))

\* a series of n prices that starts at start and rises by 1 a day, but for
\* a fall of 1 at point dip when dip is not 0
SeriesOf(n, start, dip) ==
    [i \in 1..n |->
        Num(IF dip # 0 /\ i >= dip THEN start + i - 3 ELSE start + i - 1)]

PriceSeries ==
    { SeriesOf(n, start, dip) :
        n \in (Period - 1)..MaxPoints, start \in 1..MaxStart,
        dip \in {0} \cup 3..MaxPoints }

InitIndicators ==
    /\ TaxIdle
    /\ HookMounted("30d")
    /\ CacheEmpty
    /\ RiskIdle
    /\ HistoryIdle
    /\ priceSeries \in PriceSeries
    /\ rsi = <<>>

\* const rsi = calculateRSI(historicalPrices)
CalculateRSI ==
    /\ rsi = <<>>
    /\ rsi' = <<calculateRSI(priceSeries, Period)>>
    /\ UNCHANGED <<priceSeries, taxVars, hookVars, cacheVars, riskVars,
                   historyVars>>

NextIndicators == CalculateRSI

SpecIndicators == InitIndicators /\ [][NextIndicators]_vars

StrictlyIncreasing(series) ==
    \A i \in 1..(Len(series) - 1) : Less(series[i], series[i + 1])

\* C21: the RSI(14) of a strictly increasing series of 14 prices is 100.
RsiOfRisingSeriesIs100 ==
    (rsi # <<>> /\ Len(priceSeries) = Period /\ StrictlyIncreasing(priceSeries))
        => rsi[1] = Num(100)

(***************************************************************************)
(* The usePortfolioAnalytics hook while usePortfolio reloads: the effect   *)
(* on portfolio.loading resets the analytics and clears the timer when the *)
(* portfolio starts loading, and fetches and starts the timer when it has  *)
(* loaded.                                                                 *)
(***************************************************************************)
\* the portfolio effect when portfolio.loading turns true: the cleanup of
\* the previous run clears the timer, setAnalytics(DEFAULT_ANALYTICS)
PortfolioLoading ==
    /\ ~portfolioLoading
    /\ portfolioLoading' = TRUE
    /\ analytics' = DEFAULT_ANALYTICS
    /\ refreshInterval' = NoInterval
    /\ UNCHANGED <<timePeriod, sinceLastFetch, sinceLastCycle, inFlight,
                   lastGap, triggered, nonHookVars>>

\* the portfolio effect when portfolio.loading turns false:
\* fetchAnalyticsData(); startAutoRefresh()
PortfolioLoaded ==
    /\ portfolioLoading
    /\ Len(inFlight) < MaxInFlight
    /\ portfolioLoading' = FALSE
    /\ fetchAnalyticsData([ timePeriod       |-> timePeriod,
                            sinceLastFetch   |-> sinceLastFetch,
                            portfolioLoading |-> FALSE ])
    /\ refreshInterval' = [ timePeriod       |-> timePeriod,
                            sinceLastFetch   |-> sinceLastFetch,
                            portfolioLoading |-> FALSE,
                            untilTick        |-> RefreshEvery ]
    /\ UNCHANGED <<timePeriod, nonHookVars>>

NextPrerequisites ==
    \/ NextAnalytics
    \/ PortfolioLoading
    \/ PortfolioLoaded

SpecPrerequisites == InitAnalytics /\ [][NextPrerequisites]_vars

\* C29: a call of fetchAnalyticsData that returns because a prerequisite
\* is missing does not arm the debounce: when the portfolio has loaded and
\* no cycle started within the debounce window, the fetch of the
\* portfolio effect starts a cycle.
EarlyReturnLeavesDebounce ==
    [][(portfolioLoading /\ ~portfolioLoading' /\ sinceLastCycle >= Debounce)
          => Len(inFlight') = Len(inFlight) + 1]_vars

(***************************************************************************)
(* The useTransactionHistory hook.  fetchTransactions is the closure of    *)
(* some render: it reads the address, the network and the cache of that    *)
(* render, before and after its await.  Event handlers and effects run the *)
(* closure of the current render, so a setCache made in the same handler   *)
(* is not seen by it.                                                      *)
(***************************************************************************)
MaxRequests == 3

MaxPage == 1

Addresses == {"0xA", "0xB"}

\* the state of the components other than the hook
nonHistoryVars == <<taxVars, hookVars, cacheVars, riskVars, indicatorVars>>

\* the fetchTransactions of the render with the given wallet and network
fetchTransactionsOf(wallet, network) ==
    [ address |-> wallet, currentNetwork |-> network, cache |-> pageCache ]

\* fetchTransactions(page, append) up to its await, on the state prev the
\* earlier updates of the same handler leave: the return without a
\* wallet, the answer from the closure's cache, the request
fetchTransactions(closure, prev, page, append) ==
    LET pageKey == <<closure.address, closure.currentNetwork, page>>
    IN  IF closure.address = ""
        THEN /\ history' = [prev EXCEPT !.transactions = <<>>,
                                        !.loading = FALSE]
             /\ UNCHANGED <<pending, issued>>
        ELSE IF pageKey \in DOMAIN closure.cache /\ ~append
        THEN /\ history' = [prev EXCEPT !.transactions = <<closure.cache[pageKey]>>,
                                        !.loading = FALSE,
                                        !.page = page]
             /\ UNCHANGED <<pending, issued>>
        ELSE /\ history' = [prev EXCEPT !.loading = TRUE, !.error = FALSE]
             /\ issued' = issued + 1
             /\ pending' = pending \cup
                    {[ address        |-> closure.address,
                       currentNetwork |-> closure.currentNetwork,
                       page           |-> page,
                       append         |-> append,
                       cache          |-> closure.cache,
                       request        |-> issued + 1 ]}

\* the effect on [address, isConnected, currentNetwork], run by the render
\* with the new wallet and network
ResetEffect(wallet, network) ==
    /\ issued < MaxRequests
    /\ address' = wallet
    /\ currentNetwork' = network
    /\ IF wallet # ""
       THEN /\ pageCache' = EmptyCache
            /\ fetchTransactions(fetchTransactionsOf(wallet, network),
                                 INITIAL_STATE, 0, FALSE)
       ELSE /\ history' = INITIAL_STATE
            /\ UNCHANGED <<pageCache, pending, issued>>
    /\ UNCHANGED nonHistoryVars

\* the wallet connects, disconnects or changes its account
WalletChange ==
    \E wallet \in (Addresses \cup {""}) \ {address} :
        ResetEffect(wallet, currentNetwork)

\* the user switches the network
NetworkChange ==
    \E network \in Networks \ {currentNetwork} :
        ResetEffect(address, network)

loadMore ==
    /\ issued < MaxRequests
    /\ ~history.loading
    /\ history.hasMore
    /\ history.page < MaxPage
    /\ fetchTransactions(fetchTransactionsOf(address, currentNetwork),
                         history, history.page + 1, TRUE)
    /\ UNCHANGED <<address, currentNetwork, pageCache, nonHistoryVars>>

\* refresh of useTransactionHistory: setCache(new Map());
\* fetchTransactions(0, false)
refreshTransactions ==
    /\ issued < MaxRequests
    /\ pageCache' = EmptyCache
    /\ fetchTransactions(fetchTransactionsOf(address, currentNetwork),
                         history, 0, FALSE)
    /\ UNCHANGED <<address, currentNetwork, nonHistoryVars>>

\* the page getTransactionHistory returns to a request
PageOf(req) ==
    [ address        |-> req.address,
      currentNetwork |-> req.currentNetwork,
      page           |-> req.page,
      request        |-> req.request ]

\* fetchTransactions after its await: getTransactionHistory resolved
ReceiveTransactions ==
    \E req \in pending, hasMore \in BOOLEAN :
        /\ req.page = MaxPage => ~hasMore
        /\ pending' = pending \ {req}
        /\ pageCache' =
              [ k \in DOMAIN req.cache
                      \cup {<<req.address, req.currentNetwork, req.page>>} |->
                  IF k = <<req.address, req.currentNetwork, req.page>>
                  THEN PageOf(req)
                  ELSE req.cache[k] ]
        /\ history' =
              [history EXCEPT
                  !.transactions = IF req.append
                                   THEN Append(history.transactions, PageOf(req))
                                   ELSE <<PageOf(req)>>,
                  !.loading = FALSE,
                  !.hasMore = hasMore,
                  !.page = req.page]
        /\ UNCHANGED <<address, currentNetwork, issued, nonHistoryVars>>

\* fetchTransactions after its await: getTransactionHistory rejected
FailTransactions ==
    \E req \in pending :
        /\ pending' = pending \ {req}
        /\ history' = [history EXCEPT !.loading = FALSE, !.error = TRUE]
        /\ UNCHANGED <<address, currentNetwork, pageCache, issued,
                       nonHistoryVars>>

InitHistory ==
    /\ TaxIdle
    /\ HookMounted("30d")
    /\ CacheEmpty
    /\ RiskIdle
    /\ IndicatorIdle
    /\ HistoryIdle

NextHistory ==
    \/ WalletChange
    \/ NetworkChange
    \/ loadMore
    \/ refreshTransactions
    \/ ReceiveTransactions
    \/ FailTransactions

SpecHistory == InitHistory /\ [][NextHistory]_vars

\* C27: every call of refresh while a wallet is connected issues a new
\* getTransactionHistory request for page 0 of the current address and
\* network, whether or not that page is in the cache.
RefreshRefetches ==
    [][(refreshTransactions /\ address # "")
          => \E req \in pending' \ pending :
                /\ req.address = address
                /\ req.currentNetwork = currentNetwork
                /\ req.page = 0]_vars

\* the pages displayed and the pages cached
HeldPages ==
    {history.transactions[i] : i \in 1..Len(history.transactions)}
        \cup {pageCache[k] : k \in DOMAIN pageCache}

\* C30: the displayed list and the page cache hold only transactions
\* fetched for the connected address on the current network, so a fetch in
\* flight when either changed neither replaces the list nor fills the
\* cache.
NoPreviousWalletData ==
    address # "" =>
        \A held \in HeldPages :
            held.address = address /\ held.currentNetwork = currentNetwork

====
